---- MODULE Spec2Model ----
(***************************************************************************)
(* Model of the product catalogue service: the QueryProcessor of           *)
(* utils/queryHelpers.js, the request handlers of server.js and the        *)
(* middleware in front of them.                                            *)
(*                                                                         *)
(* Conventions.                                                            *)
(*  - A JavaScript string is a sequence of one-character strings, so that  *)
(*    toLowerCase, trim, split, includes, parseInt and parseFloat are      *)
(*    computed character by character.                                    *)
(*  - A price is an integer number of cents (1599.99 is 159999); every     *)
(*    number that reaches the model has at most two decimals.              *)
(*  - A JavaScript array is a reference into a heap of sequences, so that  *)
(*    "returns a new array", "returns its argument" and "sorts in place"   *)
(*    are different things.                                                *)
(*  - An object with optional keys is a function whose DOMAIN is the set   *)
(*    of keys that are present.                                            *)
(***************************************************************************)
EXTENDS Integers, Sequences, FiniteSets, TLC

VARIABLES
    products,   \* the collection: `products` of server.js
    clock,      \* the writes served so far; one reads the time Now(clock).
                \* Under SpecMet, the minutes gone by
    request,    \* the request being served, NoRequest between two requests
    response,   \* the response to it
    trace,      \* the QueryProcessor calls its handler made, in order.
                \* Under SpecMet, the errors handled since the last reset
    call,       \* a call made on its own: a QueryProcessor function under
                \* SpecQP, the error boundary under SpecErr
    errorMetrics \* the metrics of the singleton errorMetrics, which the
                \* error handler behind the routes writes: SpecMet follows
                \* them, Spec stops at the outcome of the route

vars == <<products, clock, request, response, trace, call, errorMetrics>>

\* the variables of the server
server == <<products, clock, request, response, trace, errorMetrics>>

(***************************************************************************)
(* Bounds of the model.                                                    *)
(***************************************************************************)
\* most write requests (create, update, delete) that succeed in one behaviour
MaxWrites == 1
\* longest product sequence handed to a QueryProcessor function on its own
MaxLen == 3
\* most errors handled between two resets of the metrics
MaxErrors == 3

(***************************************************************************)
(* Strings.                                                                *)
(***************************************************************************)
\* the printable ASCII characters in code-unit order, from 32 (space) to 126
\* (code 96, the grave accent, cannot be written in a TLA+ string: it is
\* held by a placeholder that occurs in no string of the model)
Alphabet ==
    <<" ","!","\"","#","$","%","&","'","(",")","*","+",",","-",".","/",
      "0","1","2","3","4","5","6","7","8","9",":",";","<","=",">","?",
      "@","A","B","C","D","E","F","G","H","I","J","K","L","M","N","O",
      "P","Q","R","S","T","U","V","W","X","Y","Z","[","\\","]","^","_",
      "GRAVE","a","b","c","d","e","f","g","h","i","j","k","l","m","n","o",
      "p","q","r","s","t","u","v","w","x","y","z","{","|","}","~">>

CharSet == {Alphabet[i] : i \in 1..Len(Alphabet)}

\* the UTF-16 code unit of a character
CodeOf == [c \in CharSet |-> 31 + CHOOSE i \in 1..Len(Alphabet) : Alphabet[i] = c]

\* String.prototype.toLowerCase on one character
LowerOf == [c \in CharSet |->
              IF CodeOf[c] >= 65 /\ CodeOf[c] <= 90 THEN Alphabet[CodeOf[c] + 32 - 31] ELSE c]

\* String.prototype.toLowerCase
ToLowerCase(s) == [i \in 1..Len(s) |-> LowerOf[s[i]]]

IsSpace(c) == c = " "

RECURSIVE TrimLeft(_)
TrimLeft(s) == IF s # <<>> /\ IsSpace(Head(s)) THEN TrimLeft(Tail(s)) ELSE s

RECURSIVE TrimRight(_)
TrimRight(s) ==
    IF s # <<>> /\ IsSpace(s[Len(s)]) THEN TrimRight(SubSeq(s, 1, Len(s) - 1)) ELSE s

\* String.prototype.trim
Trim(s) == TrimRight(TrimLeft(s))

\* String.prototype.includes
Includes(s, t) ==
    \E i \in 1..(Len(s) - Len(t) + 1) : SubSeq(s, i, i + Len(t) - 1) = t

\* the relational operator < on two strings: code units, left to right
RECURSIVE StrLess(_, _)
StrLess(a, b) ==
    IF b = <<>> THEN FALSE
    ELSE IF a = <<>> THEN TRUE
    ELSE IF Head(a) = Head(b) THEN StrLess(Tail(a), Tail(b))
    ELSE CodeOf[Head(a)] < CodeOf[Head(b)]

\* String.prototype.split(',')
RECURSIVE SplitAcc(_, _, _)
SplitAcc(s, cur, acc) ==
    IF s = <<>> THEN Append(acc, cur)
    ELSE IF Head(s) = "," THEN SplitAcc(Tail(s), <<>>, Append(acc, cur))
    ELSE SplitAcc(Tail(s), Append(cur, Head(s)), acc)

SplitComma(s) == SplitAcc(s, <<>>, <<>>)

\* Array.prototype.join(', ')
RECURSIVE JoinComma(_)
JoinComma(ss) ==
    IF ss = <<>> THEN <<>>
    ELSE IF Len(ss) = 1 THEN ss[1]
    ELSE ss[1] \o <<",", " ">> \o JoinComma(Tail(ss))

(***************************************************************************)
(* Numbers.                                                                *)
(***************************************************************************)
IsDigit(c) == CodeOf[c] >= 48 /\ CodeOf[c] <= 57

DigitVal(c) == CodeOf[c] - 48

\* the longest prefix of s made of digits
RECURSIVE DigitPrefix(_)
DigitPrefix(s) ==
    IF s # <<>> /\ IsDigit(Head(s)) THEN <<Head(s)>> \o DigitPrefix(Tail(s)) ELSE <<>>

RECURSIVE DigitsValue(_, _)
DigitsValue(ds, acc) ==
    IF ds = <<>> THEN acc ELSE DigitsValue(Tail(ds), 10 * acc + DigitVal(Head(ds)))

\* a JavaScript number that may be NaN
NaN == [nan |-> TRUE, v |-> 0]
Num(n) == [nan |-> FALSE, v |-> n]

\* parseInt(s): leading white space, an optional sign, then the longest run
\* of digits; NaN when there is no digit
ParseInt(s) ==
    LET Value(neg, ds) ==
            IF ds = <<>> THEN NaN
            ELSE Num(IF neg THEN 0 - DigitsValue(ds, 0) ELSE DigitsValue(ds, 0))
        Signed(t) ==
            Value(t # <<>> /\ Head(t) = "-",
                  DigitPrefix(IF t # <<>> /\ (Head(t) = "-" \/ Head(t) = "+")
                              THEN Tail(t) ELSE t))
    IN  Signed(TrimLeft(s))

\* parseFloat(s), in cents: leading white space, an optional sign, digits,
\* an optional point and at most two decimals; NaN when there is no digit
ParseFloat(s) ==
    LET Cents(fs) ==
            IF Len(fs) = 0 THEN 0
            ELSE IF Len(fs) = 1 THEN 10 * DigitVal(fs[1])
            ELSE 10 * DigitVal(fs[1]) + DigitVal(fs[2])
        Value(neg, ds, fs) ==
            IF ds = <<>> /\ fs = <<>> THEN NaN
            ELSE Num(IF neg THEN 0 - (100 * DigitsValue(ds, 0) + Cents(fs))
                     ELSE 100 * DigitsValue(ds, 0) + Cents(fs))
        Fraction(rest) ==
            IF rest # <<>> /\ Head(rest) = "." THEN DigitPrefix(Tail(rest)) ELSE <<>>
        Digits(neg, u, ds) == Value(neg, ds, Fraction(SubSeq(u, Len(ds) + 1, Len(u))))
        Unsigned(neg, u) == Digits(neg, u, DigitPrefix(u))
        Signed(t) ==
            Unsigned(t # <<>> /\ Head(t) = "-",
                     IF t # <<>> /\ (Head(t) = "-" \/ Head(t) = "+") THEN Tail(t) ELSE t)
    IN  Signed(TrimLeft(s))

\* the decimal digits of a natural number
RECURSIVE NatToString(_)
NatToString(n) ==
    IF n < 10 THEN <<Alphabet[n + 17]>>
    ELSE NatToString(n \div 10) \o <<Alphabet[(n % 10) + 17]>>

\* Math.ceil(a / b) for a >= 0, b > 0
CeilDiv(a, b) == (a + b - 1) \div b

(***************************************************************************)
(* The product collection (server.js, `let products = [...]`).             *)
(***************************************************************************)
Product(id, name, description, price, category, inStock, createdAt, updatedAt) ==
    [id |-> id, name |-> name, description |-> description, price |-> price,
     category |-> category, inStock |-> inStock,
     createdAt |-> createdAt, updatedAt |-> updatedAt]

\* the ten products the server starts with
SeedProducts ==
    << Product(<<"1">>, <<"G","a","m","i","n","g"," ","L","a","p","t","o","p"," ","P","r","o">>,
               <<"H","i","g","h","-","p","e","r","f","o","r","m","a","n","c","e"," ","g","a","m","i","n","g"," ","l","a","p","t","o","p"," ","w","i","t","h"," ","R","T","X"," ","4","0","7","0",","," ","1","6","G","B"," ","R","A","M",","," ","a","n","d"," ","1","T","B"," ","S","S","D">>,
               159999, <<"e","l","e","c","t","r","o","n","i","c","s">>, TRUE,
               <<"2","0","2","4","-","0","1","-","1","5","T","1","0",":","3","0",":","0","0","Z">>, <<"2","0","2","4","-","0","1","-","1","5","T","1","0",":","3","0",":","0","0","Z">>),
       Product(<<"2">>, <<"i","P","h","o","n","e"," ","1","5"," ","P","r","o">>,
               <<"L","a","t","e","s","t"," ","A","p","p","l","e"," ","s","m","a","r","t","p","h","o","n","e"," ","w","i","t","h"," ","t","i","t","a","n","i","u","m"," ","d","e","s","i","g","n"," ","a","n","d"," ","4","8","M","P"," ","c","a","m","e","r","a"," ","s","y","s","t","e","m">>,
               119999, <<"e","l","e","c","t","r","o","n","i","c","s">>, TRUE,
               <<"2","0","2","4","-","0","1","-","1","0","T","1","4",":","2","0",":","0","0","Z">>, <<"2","0","2","4","-","0","1","-","1","0","T","1","4",":","2","0",":","0","0","Z">>),
       Product(<<"3">>, <<"P","r","e","m","i","u","m"," ","C","o","f","f","e","e"," ","M","a","k","e","r">>,
               <<"P","r","o","g","r","a","m","m","a","b","l","e"," ","d","r","i","p"," ","c","o","f","f","e","e"," ","m","a","k","e","r"," ","w","i","t","h"," ","t","h","e","r","m","a","l"," ","c","a","r","a","f","e"," ","a","n","d"," ","t","i","m","e","r">>,
               8999, <<"k","i","t","c","h","e","n">>, FALSE,
               <<"2","0","2","4","-","0","1","-","0","8","T","0","9",":","1","5",":","0","0","Z">>, <<"2","0","2","4","-","0","1","-","2","0","T","1","6",":","4","5",":","0","0","Z">>),
       Product(<<"4">>, <<"W","i","r","e","l","e","s","s"," ","B","l","u","e","t","o","o","t","h"," ","H","e","a","d","p","h","o","n","e","s">>,
               <<"P","r","e","m","i","u","m"," ","n","o","i","s","e","-","c","a","n","c","e","l","l","i","n","g"," ","h","e","a","d","p","h","o","n","e","s"," ","w","i","t","h"," ","3","0","-","h","o","u","r"," ","b","a","t","t","e","r","y"," ","l","i","f","e">>,
               24999, <<"e","l","e","c","t","r","o","n","i","c","s">>, TRUE,
               <<"2","0","2","4","-","0","1","-","1","2","T","1","1",":","0","0",":","0","0","Z">>, <<"2","0","2","4","-","0","1","-","1","2","T","1","1",":","0","0",":","0","0","Z">>),
       Product(<<"5">>, <<"O","r","g","a","n","i","c"," ","C","o","t","t","o","n"," ","T","-","S","h","i","r","t">>,
               <<"C","o","m","f","o","r","t","a","b","l","e"," ","o","r","g","a","n","i","c"," ","c","o","t","t","o","n"," ","t","-","s","h","i","r","t"," ","i","n"," ","v","a","r","i","o","u","s"," ","c","o","l","o","r","s"," ","a","n","d"," ","s","i","z","e","s">>,
               2999, <<"c","l","o","t","h","i","n","g">>, TRUE,
               <<"2","0","2","4","-","0","1","-","1","8","T","1","3",":","3","0",":","0","0","Z">>, <<"2","0","2","4","-","0","1","-","1","8","T","1","3",":","3","0",":","0","0","Z">>),
       Product(<<"6">>, <<"J","a","v","a","S","c","r","i","p","t"," ","P","r","o","g","r","a","m","m","i","n","g"," ","G","u","i","d","e">>,
               <<"C","o","m","p","l","e","t","e"," ","g","u","i","d","e"," ","t","o"," ","m","o","d","e","r","n"," ","J","a","v","a","S","c","r","i","p","t"," ","p","r","o","g","r","a","m","m","i","n","g"," ","a","n","d"," ","w","e","b"," ","d","e","v","e","l","o","p","m","e","n","t">>,
               3999, <<"b","o","o","k","s">>, TRUE,
               <<"2","0","2","4","-","0","1","-","0","5","T","0","8",":","4","5",":","0","0","Z">>, <<"2","0","2","4","-","0","1","-","0","5","T","0","8",":","4","5",":","0","0","Z">>),
       Product(<<"7">>, <<"P","r","o","f","e","s","s","i","o","n","a","l"," ","T","e","n","n","i","s"," ","R","a","c","k","e","t">>,
               <<"H","i","g","h","-","q","u","a","l","i","t","y"," ","t","e","n","n","i","s"," ","r","a","c","k","e","t"," ","u","s","e","d"," ","b","y"," ","p","r","o","f","e","s","s","i","o","n","a","l"," ","p","l","a","y","e","r","s">>,
               18999, <<"s","p","o","r","t","s">>, FALSE,
               <<"2","0","2","4","-","0","1","-","1","4","T","1","6",":","2","0",":","0","0","Z">>, <<"2","0","2","4","-","0","1","-","2","2","T","1","0",":","1","5",":","0","0","Z">>),
       Product(<<"8">>, <<"S","t","a","i","n","l","e","s","s"," ","S","t","e","e","l"," ","C","o","o","k","w","a","r","e"," ","S","e","t">>,
               <<"1","0","-","p","i","e","c","e"," ","p","r","o","f","e","s","s","i","o","n","a","l"," ","s","t","a","i","n","l","e","s","s"," ","s","t","e","e","l"," ","c","o","o","k","w","a","r","e"," ","s","e","t"," ","w","i","t","h"," ","n","o","n","-","s","t","i","c","k"," ","c","o","a","t","i","n","g">>,
               29999, <<"k","i","t","c","h","e","n">>, TRUE,
               <<"2","0","2","4","-","0","1","-","1","1","T","1","2",":","1","0",":","0","0","Z">>, <<"2","0","2","4","-","0","1","-","1","1","T","1","2",":","1","0",":","0","0","Z">>),
       Product(<<"9">>, <<"E","d","u","c","a","t","i","o","n","a","l"," ","B","u","i","l","d","i","n","g"," ","B","l","o","c","k","s">>,
               <<"C","r","e","a","t","i","v","e"," ","b","u","i","l","d","i","n","g"," ","b","l","o","c","k","s"," ","s","e","t"," ","f","o","r"," ","c","h","i","l","d","r","e","n"," ","a","g","e","d"," ","3","-","1","0"," ","y","e","a","r","s">>,
               4999, <<"t","o","y","s">>, TRUE,
               <<"2","0","2","4","-","0","1","-","1","6","T","1","5",":","2","5",":","0","0","Z">>, <<"2","0","2","4","-","0","1","-","1","6","T","1","5",":","2","5",":","0","0","Z">>),
       Product(<<"1","0">>, <<"L","u","x","u","r","y"," ","L","e","a","t","h","e","r"," ","J","a","c","k","e","t">>,
               <<"P","r","e","m","i","u","m"," ","g","e","n","u","i","n","e"," ","l","e","a","t","h","e","r"," ","j","a","c","k","e","t"," ","w","i","t","h"," ","m","o","d","e","r","n"," ","f","i","t"," ","a","n","d"," ","d","e","s","i","g","n">>,
               39999, <<"c","l","o","t","h","i","n","g">>, FALSE,
               <<"2","0","2","4","-","0","1","-","0","7","T","0","7",":","3","0",":","0","0","Z">>, <<"2","0","2","4","-","0","1","-","2","1","T","1","4",":","2","0",":","0","0","Z">>) >>

\* the own properties of a product, by their JavaScript names
KeyOf(f) ==
    CASE f = <<"i","d">> -> "id"
      [] f = <<"n","a","m","e">> -> "name"
      [] f = <<"d","e","s","c","r","i","p","t","i","o","n">> -> "description"
      [] f = <<"p","r","i","c","e">> -> "price"
      [] f = <<"c","a","t","e","g","o","r","y">> -> "category"
      [] f = <<"i","n","S","t","o","c","k">> -> "inStock"
      [] f = <<"c","r","e","a","t","e","d","A","t">> -> "createdAt"
      [] f = <<"u","p","d","a","t","e","d","A","t">> -> "updatedAt"
      [] OTHER -> "undefined"

\* typeof product[f]
TypeOf(f) ==
    CASE KeyOf(f) \in {"id", "name", "description", "category", "createdAt", "updatedAt"}
            -> "string"
      [] KeyOf(f) = "price" -> "number"
      [] KeyOf(f) = "inStock" -> "boolean"
      [] OTHER -> "undefined"

\* product[f].toString()
FieldToString(p, f) ==
    LET \* Number.prototype.toString of a positive price held in cents
        PriceToString(c) ==
            LET whole == NatToString(c \div 100)
                frac == c % 100
            IN  IF frac = 0 THEN whole
                ELSE IF frac % 10 = 0 THEN whole \o <<".">> \o NatToString(frac \div 10)
                ELSE whole \o <<".">> \o NatToString(frac \div 10) \o NatToString(frac % 10)
    IN
    CASE TypeOf(f) = "string" -> p[KeyOf(f)]
      [] TypeOf(f) = "number" -> PriceToString(p[KeyOf(f)])
      [] TypeOf(f) = "boolean" -> IF p[KeyOf(f)] THEN <<"t","r","u","e">> ELSE <<"f","a","l","s","e">>
      [] OTHER -> <<"u","n","d","e","f","i","n","e","d">>

(***************************************************************************)
(* Arrays: a heap of sequences addressed by references.                    *)
(***************************************************************************)
\* a new array holding v: the heap after the allocation and the reference
NewArray(h, v) == [h |-> Append(h, v), r |-> Len(h) + 1]

\* Array.prototype.includes
Contains(s, x) == \E i \in 1..Len(s) : s[i] = x

\* the own keys of an object
Has(o, k) == k \in DOMAIN o

\* a thrown Error and a returned value
Throw(message) == [ok |-> FALSE, message |-> message]
Return(value) == [ok |-> TRUE, value |-> value]

\* the empty object {}
EmptyObject == [k \in {} |-> 0]


(***************************************************************************)
(* QueryProcessor (utils/queryHelpers.js): parsing.                        *)
(* A query is a function from the supplied keys to their string values;    *)
(* the value of category is [isArray, items], a string or a list of them.  *)
(***************************************************************************)
\* a query value that is truthy: a non-empty string
TruthyParam(query, k) == Has(query, k) /\ query[k] # <<>>

\* parseInt(query[k]) || dflt
IntOrDefault(query, k, dflt) ==
    LET Or(n) == IF n.nan \/ n.v = 0 THEN dflt ELSE n.v
    IN  Or(IF Has(query, k) THEN ParseInt(query[k]) ELSE NaN)

parsePagination(query) ==
    LET Checked(page, limit) ==
            LET skip == (page - 1) * limit
            IN  IF page < 1 THEN Throw(<<"P","a","g","e"," ","n","u","m","b","e","r"," ","m","u","s","t"," ","b","e"," ","g","r","e","a","t","e","r"," ","t","h","a","n"," ","0">>)
                ELSE IF limit < 1 \/ limit > 100
                THEN Throw(<<"L","i","m","i","t"," ","m","u","s","t"," ","b","e"," ","b","e","t","w","e","e","n"," ","1"," ","a","n","d"," ","1","0","0">>)
                ELSE Return([page |-> page, limit |-> limit, skip |-> skip,
                             offset |-> skip])
    IN  Checked(IntOrDefault(query, "page", 1), IntOrDefault(query, "limit", 10))

validCategories ==
    <<<<"e","l","e","c","t","r","o","n","i","c","s">>, <<"k","i","t","c","h","e","n">>, <<"c","l","o","t","h","i","n","g">>, <<"b","o","o","k","s">>, <<"s","p","o","r","t","s">>, <<"t","o","y","s">>, <<"o","t","h","e","r">>>>

\* query.category is truthy: a non-empty string, or any array
TruthyCategory(query) ==
    Has(query, "category")
        /\ (query["category"].isArray \/ query["category"].items[1] # <<>>)

\* the category part of parseFilters: the filters so far, or the error
parseCategory(query) ==
    IF ~TruthyCategory(query) THEN Return(EmptyObject)
    ELSE
        LET IsInvalid(cat) == ~Contains(validCategories, cat)
            Checked(categories, invalidCategories) ==
                IF Len(invalidCategories) > 0
                THEN Throw(<<"I","n","v","a","l","i","d"," ","c","a","t","e","g","o","r","i","e","s",":"," ">> \o JoinComma(invalidCategories)
                           \o <<"."," ","V","a","l","i","d"," ","c","a","t","e","g","o","r","i","e","s",":"," ">> \o JoinComma(validCategories))
                ELSE Return("category" :> categories)
            Lowered(categories) == Checked(categories, SelectSeq(categories, IsInvalid))
            Mapped(raw) == Lowered([i \in 1..Len(raw) |-> ToLowerCase(raw[i])])
        IN  Mapped(query["category"].items)

\* the price part of parseFilters
parsePrice(query) ==
    IF ~(TruthyParam(query, "minPrice") \/ TruthyParam(query, "maxPrice"))
    THEN Return(EmptyObject)
    ELSE
        LET Checked(minPrice, maxPrice) ==
                LET price == (IF TruthyParam(query, "minPrice")
                              THEN "min" :> minPrice.v ELSE EmptyObject)
                             @@ (IF TruthyParam(query, "maxPrice")
                                 THEN "max" :> maxPrice.v ELSE EmptyObject)
                IN  IF TruthyParam(query, "minPrice") /\ (minPrice.nan \/ minPrice.v < 0)
                    THEN Throw(<<"m","i","n","P","r","i","c","e"," ","m","u","s","t"," ","b","e"," ","a"," ","v","a","l","i","d"," ","p","o","s","i","t","i","v","e"," ","n","u","m","b","e","r">>)
                    ELSE IF TruthyParam(query, "maxPrice")
                            /\ (maxPrice.nan \/ maxPrice.v < 0)
                    THEN Throw(<<"m","a","x","P","r","i","c","e"," ","m","u","s","t"," ","b","e"," ","a"," ","v","a","l","i","d"," ","p","o","s","i","t","i","v","e"," ","n","u","m","b","e","r">>)
                    ELSE IF Has(price, "min") /\ price["min"] # 0
                            /\ Has(price, "max") /\ price["max"] # 0
                            /\ price["min"] > price["max"]
                    THEN Throw(<<"m","i","n","P","r","i","c","e"," ","c","a","n","n","o","t"," ","b","e"," ","g","r","e","a","t","e","r"," ","t","h","a","n"," ","m","a","x","P","r","i","c","e">>)
                    ELSE Return("price" :> price)
        IN  Checked(IF TruthyParam(query, "minPrice")
                    THEN ParseFloat(query["minPrice"]) ELSE NaN,
                    IF TruthyParam(query, "maxPrice")
                    THEN ParseFloat(query["maxPrice"]) ELSE NaN)

\* the stock part of parseFilters
parseInStock(query) ==
    IF ~Has(query, "inStock") THEN Return(EmptyObject)
    ELSE IF query["inStock"] = <<"t","r","u","e">> THEN Return("inStock" :> TRUE)
    ELSE IF query["inStock"] = <<"f","a","l","s","e">> THEN Return("inStock" :> FALSE)
    ELSE Throw(<<"i","n","S","t","o","c","k"," ","m","u","s","t"," ","b","e"," ","\"","t","r","u","e","\""," ","o","r"," ","\"","f","a","l","s","e","\"">>)

parseFilters(query) ==
    LET Merged(c, p, s) ==
            IF ~c.ok THEN c
            ELSE IF ~p.ok THEN p
            ELSE IF ~s.ok THEN s
            ELSE Return(c.value @@ p.value @@ s.value)
    IN  Merged(parseCategory(query), parsePrice(query), parseInStock(query))

parseSearch(query) ==
    IF ~(TruthyParam(query, "q") \/ TruthyParam(query, "search")) THEN Return(EmptyObject)
    ELSE
        LET Checked(searchTerm) ==
                IF Len(searchTerm) < 2
                THEN Throw(<<"S","e","a","r","c","h"," ","t","e","r","m"," ","m","u","s","t"," ","b","e"," ","a","t"," ","l","e","a","s","t"," ","2"," ","c","h","a","r","a","c","t","e","r","s"," ","l","o","n","g">>)
                ELSE IF Len(searchTerm) > 100
                THEN Throw(<<"S","e","a","r","c","h"," ","t","e","r","m"," ","m","u","s","t"," ","b","e"," ","l","e","s","s"," ","t","h","a","n"," ","1","0","0"," ","c","h","a","r","a","c","t","e","r","s">>)
                ELSE Return([term |-> ToLowerCase(searchTerm),
                             fields |-> IF TruthyParam(query, "fields")
                                        THEN SplitComma(query["fields"])
                                        ELSE <<<<"n","a","m","e">>, <<"d","e","s","c","r","i","p","t","i","o","n">>>>])
        IN  Checked(Trim(IF TruthyParam(query, "q") THEN query["q"] ELSE query["search"]))

parseSorting(query) ==
    LET validSortFields ==
            <<<<"n","a","m","e">>, <<"p","r","i","c","e">>, <<"c","a","t","e","g","o","r","y">>, <<"i","n","S","t","o","c","k">>, <<"c","r","e","a","t","e","d","A","t">>, <<"u","p","d","a","t","e","d","A","t">>>>
    IN
    IF TruthyParam(query, "sortBy")
    THEN IF ~Contains(validSortFields, query["sortBy"])
         THEN Throw(<<"I","n","v","a","l","i","d"," ","s","o","r","t","B","y"," ","f","i","e","l","d","."," ","V","a","l","i","d"," ","f","i","e","l","d","s",":"," ">> \o JoinComma(validSortFields))
         ELSE Return([field |-> query["sortBy"],
                      order |-> IF Has(query, "sortOrder") /\ query["sortOrder"] = <<"d","e","s","c">>
                                THEN <<"d","e","s","c">> ELSE <<"a","s","c">>])
    ELSE Return([field |-> <<"c","r","e","a","t","e","d","A","t">>, order |-> <<"d","e","s","c">>])


(***************************************************************************)
(* QueryProcessor: transformations.  Each takes the heap h and the         *)
(* reference r of the array it is handed, and gives the heap after the     *)
(* call and the reference it returns.                                      *)
(***************************************************************************)
applyFilters(h, r, filters) ==
    LET \* a number that is truthy: not 0 (NaN never reaches a FilterSet)
        TruthyNumber(n) == n # 0
    IN
    LET \* the callback of applyFilters: whether the product is kept
        PassesFilters(product, filterSet) ==
            IF Has(filterSet, "category") /\ ~Contains(filterSet["category"], product.category)
            THEN FALSE
            ELSE IF Has(filterSet, "price")
                    /\ Has(filterSet["price"], "min") /\ TruthyNumber(filterSet["price"]["min"])
                    /\ product.price < filterSet["price"]["min"]
            THEN FALSE
            ELSE IF Has(filterSet, "price")
                    /\ Has(filterSet["price"], "max") /\ TruthyNumber(filterSet["price"]["max"])
                    /\ product.price > filterSet["price"]["max"]
            THEN FALSE
            ELSE IF Has(filterSet, "inStock") /\ product.inStock # filterSet["inStock"]
            THEN FALSE
            ELSE TRUE
    IN
    LET Keep(product) == PassesFilters(product, filters)
    IN  NewArray(h, SelectSeq(h[r], Keep))

applySearch(h, r, search) ==
    LET \* whether product[f] is truthy: a non-empty string, a number other than 0,
        \* the boolean true; undefined (no such property) is falsy
        FieldTruthy(p, f) ==
            CASE TypeOf(f) = "string" -> p[KeyOf(f)] # <<>>
              [] TypeOf(f) = "number" -> p[KeyOf(f)] # 0
              [] TypeOf(f) = "boolean" -> p[KeyOf(f)]
              [] OTHER -> FALSE
    IN
    LET \* the callback of applySearch: whether some field holds the term
        MatchesSearch(product, searchSpec) ==
            \E i \in 1..Len(searchSpec.fields) :
                /\ FieldTruthy(product, searchSpec.fields[i])
                /\ Includes(ToLowerCase(FieldToString(product, searchSpec.fields[i])), searchSpec.term)
    IN
    IF ~(Has(search, "term") /\ search.term # <<>>) THEN [h |-> h, r |-> r]
    ELSE
        LET Keep(product) == MatchesSearch(product, search)
        IN  NewArray(h, SelectSeq(h[r], Keep))

\* x > y on two values of the type of field f
Greater(x, y, f) ==
    CASE TypeOf(f) = "string" -> StrLess(y, x)
      [] TypeOf(f) = "number" -> x > y
      [] TypeOf(f) = "boolean" -> x /\ ~y
      [] OTHER -> FALSE

\* a faulty comparator that compares strings without toLowerCase
SortCompareCaseSensitive(a, b, sort) ==
    LET Compare(aValue, bValue) ==
            IF sort.order = <<"d","e","s","c">>
            THEN IF Greater(bValue, aValue, sort.field) THEN 1
                 ELSE IF Greater(aValue, bValue, sort.field) THEN -1 ELSE 0
            ELSE IF Greater(aValue, bValue, sort.field) THEN 1
                 ELSE IF Greater(bValue, aValue, sort.field) THEN -1 ELSE 0
    IN  Compare(a[KeyOf(sort.field)], b[KeyOf(sort.field)])

\* the comparator of applySorting: 1, -1 or 0
SortCompare(a, b, sort) ==
    LET Compare(aValue, bValue) ==
            IF sort.order = <<"d","e","s","c">>
            THEN IF Greater(bValue, aValue, sort.field) THEN 1
                 ELSE IF Greater(aValue, bValue, sort.field) THEN -1 ELSE 0
            ELSE IF Greater(aValue, bValue, sort.field) THEN 1
                 ELSE IF Greater(bValue, aValue, sort.field) THEN -1 ELSE 0
    IN  IF TypeOf(sort.field) = "string"
        THEN Compare(ToLowerCase(a[KeyOf(sort.field)]), ToLowerCase(b[KeyOf(sort.field)]))
        ELSE Compare(a[KeyOf(sort.field)], b[KeyOf(sort.field)])

\* Array.prototype.sort(cmp), which ECMAScript requires to be stable: each
\* element in turn goes before the first one already placed that it
\* compares below
RECURSIVE InsertSorted(_, _, _)
InsertSorted(done, x, sort) ==
    IF done = <<>> THEN <<x>>
    ELSE IF SortCompare(x, Head(done), sort) < 0 THEN <<x>> \o done
    ELSE <<Head(done)>> \o InsertSorted(Tail(done), x, sort)

RECURSIVE SortFrom(_, _, _)
SortFrom(done, todo, sort) ==
    IF todo = <<>> THEN done
    ELSE SortFrom(InsertSorted(done, Head(todo), sort), Tail(todo), sort)

ArraySort(s, sort) == SortFrom(<<>>, s, sort)

\* a sort that is not stable: elements that compare equal come out in the
\* reverse of the order they came in
applySortingUnstable(h, r, sort) ==
    LET Reversed(s) == [i \in 1..Len(s) |-> s[Len(s) + 1 - i]]
    IN  [h |-> [h EXCEPT ![r] = ArraySort(Reversed(h[r]), sort)], r |-> r]

\* sorts the array it is handed, in place, and returns that array
applySorting(h, r, sort) ==
    [h |-> [h EXCEPT ![r] = ArraySort(h[r], sort)], r |-> r]

\* Array.prototype.slice(from, to) with 0 <= from <= to
Slice(s, from, to) ==
    SubSeq(s, from + 1, IF to < Len(s) THEN to ELSE Len(s))

\* a faulty applyPagination whose hasNextPage is endIndex <= products.length
applyPaginationInclusive(h, r, pagination) ==
    LET startIndex == pagination.skip
        endIndex == startIndex + pagination.limit
        Result(data) ==
            [h |-> data.h,
             data |-> data.r,
             pagination |-> [currentPage |-> pagination.page,
                             totalPages |-> CeilDiv(Len(h[r]), pagination.limit),
                             totalItems |-> Len(h[r]),
                             itemsPerPage |-> pagination.limit,
                             hasNextPage |-> endIndex <= Len(h[r]),
                             hasPrevPage |-> pagination.page > 1]]
    IN  Result(NewArray(h, Slice(h[r], startIndex, endIndex)))

\* a faulty applyPagination that takes startIndex for a one-based position
applyPaginationOneBased(h, r, pagination) ==
    LET startIndex == pagination.skip
        endIndex == startIndex + pagination.limit
        Result(data) ==
            [h |-> data.h,
             data |-> data.r,
             pagination |-> [currentPage |-> pagination.page,
                             totalPages |-> CeilDiv(Len(h[r]), pagination.limit),
                             totalItems |-> Len(h[r]),
                             itemsPerPage |-> pagination.limit,
                             hasNextPage |-> endIndex < Len(h[r]),
                             hasPrevPage |-> pagination.page > 1]]
    IN  Result(NewArray(h, Slice(h[r], startIndex + 1, endIndex)))

applyPagination(h, r, pagination) ==
    LET startIndex == pagination.skip
        endIndex == startIndex + pagination.limit
        Result(data) ==
            [h |-> data.h,
             data |-> data.r,
             pagination |-> [currentPage |-> pagination.page,
                             totalPages |-> CeilDiv(Len(h[r]), pagination.limit),
                             totalItems |-> Len(h[r]),
                             itemsPerPage |-> pagination.limit,
                             hasNextPage |-> endIndex < Len(h[r]),
                             hasPrevPage |-> pagination.page > 1]]
    IN  Result(NewArray(h, Slice(h[r], startIndex, endIndex)))


(***************************************************************************)
(* Inputs.                                                                 *)
(***************************************************************************)
\* the readings of the clock: new Date().toISOString() after so many ticks
Now(t) == <<"2","0","2","5","-","0","6","-","0">> \o NatToString(t + 1) \o <<"T","1","2",":","0","0",":","0","0",".","0","0","0","Z">>

\* the identifiers uuidv4() hands out
Uuids ==
    <<<<"1","b","9","d","6","b","c","d","-","b","b","f","d","-","4","b","2","d","-","9","b","5","d","-","a","b","8","d","f","b","b","d","4","b","e","d">>, <<"9","C","5","B","9","4","B","1","-","3","5","A","D","-","4","9","B","B","-","B","1","1","8","-","8","E","8","F","C","2","4","A","B","F","8","0">>>>

\* the sequences of at most n distinct elements of S
RECURSIVE SeqsUpTo(_, _)
SeqsUpTo(S, n) ==
    IF n = 0 THEN {<<>>}
    ELSE LET Longer(shorter) ==
                 shorter \cup {Append(s, x) : s \in {t \in shorter : Len(t) = n - 1},
                                              x \in S}
         IN  Longer(SeqsUpTo(S, n - 1))

ProductSeqs ==
    LET \* products that create requests can put in the collection, next to two of
        \* the seed: names that differ in case only, equal prices, both stock states
        SampleProducts ==
            { SeedProducts[1], SeedProducts[3],
              Product(Uuids[1], <<"a","p","p","l","e"," ","p","i","e">>, <<"B","a","k","e","d"," ","t","o","d","a","y">>, 1000, <<"b","o","o","k","s">>, TRUE,
                      Now(0), Now(0)),
              Product(Uuids[2], <<"A","p","p","l","e"," ","P","i","e">>, <<"A"," ","f","a","l","s","e"," ","f","r","i","e","n","d">>, 1000, <<"t","o","y","s">>, FALSE,
                      Now(0), Now(1)),
              Product(<<"3","f","0","c","8","a","2","e","-","7","d","4","1","-","4","c","6","b","-","8","a","5","5","-","0","e","9","b","1","c","2","d","3","f","4","a">>, <<"Z","e","b","r","a"," ","m","u","g">>, <<"S","t","r","i","p","e","d">>, 50,
                      <<"k","i","t","c","h","e","n">>, TRUE, Now(1), Now(1)) }
    IN
    {s \in SeqsUpTo(SampleProducts, MaxLen) :
        \A i, j \in 1..Len(s) : i # j => s[i] # s[j]}

\* a key that is absent, or present with one of the values
Opt(k, values) == {EmptyObject} \cup {k :> v : v \in values}

One(s) == [isArray |-> FALSE, items |-> <<s>>]
Many(ss) == [isArray |-> TRUE, items |-> ss]

PageQueries ==
    {p @@ l : p \in Opt("page", {<<>>, <<"a","b","c">>, <<"0">>, <<"-","1">>, <<"1">>, <<"2">>, <<"3">>, <<"2","x">>}),
              l \in Opt("limit", {<<"t","e","n">>, <<"0">>, <<"-","5">>, <<"1">>, <<"2">>, <<"1","0","0">>, <<"1","0","1">>})}

FilterQueries ==
    {c @@ lo @@ hi @@ s :
        c \in Opt("category", {One(<<"B","o","o","k","s">>), One(<<>>), One(<<"b","o","g","u","s">>),
                               Many(<<<<"k","i","t","c","h","e","n">>, <<"T","O","Y","S">>>>), Many(<<<<"t","o","y","s">>, <<"n","o","p","e">>>>)}),
        lo \in Opt("minPrice", {<<"0">>, <<"1","0">>, <<"9","0">>, <<"-","1">>, <<"c","h","e","a","p">>}),
        hi \in Opt("maxPrice", {<<"0">>, <<"1","0">>, <<"1","5","9","9",".","9","9">>, <<"x">>}),
        s \in Opt("inStock", {<<"t","r","u","e">>, <<"f","a","l","s","e">>, <<"y","e","s">>})}

SearchQueries ==
    {t @@ f :
        t \in Opt("q", {<<>>, <<"a">>, <<" "," ","P","R","O"," ">>, <<"a","l">>, <<"f","a","l","s","e">>, <<"t","r","u","e">>, <<"1","0">>, <<"z","z">>})
              \cup Opt("search", {<<"P","i","e">>}),
        f \in Opt("fields", {<<"n","a","m","e">>, <<"i","n","S","t","o","c","k">>, <<"p","r","i","c","e",",","c","a","t","e","g","o","r","y">>, <<"b","o","g","u","s",",","d","e","s","c","r","i","p","t","i","o","n">>})}

SortQueries ==
    {b @@ o :
        b \in Opt("sortBy", {<<>>, <<"n","a","m","e">>, <<"p","r","i","c","e">>, <<"c","a","t","e","g","o","r","y">>, <<"i","n","S","t","o","c","k">>,
                             <<"c","r","e","a","t","e","d","A","t">>, <<"u","p","d","a","t","e","d","A","t">>, <<"b","o","g","u","s">>}),
        o \in Opt("sortOrder", {<<>>, <<"a","s","c">>, <<"d","e","s","c">>, <<"D","E","S","C">>})}

(***************************************************************************)
(* The QueryProcessor functions called on their own: call records the      *)
(* call, its arguments, what it returned and what it left in the array it  *)
(* was handed.  A behaviour makes one call.                                *)
(***************************************************************************)
NoCall == [fn |-> "none"]

CallParsePagination ==
    /\ call = NoCall
    /\ \E q \in PageQueries :
          call' = [fn |-> "parsePagination", query |-> q, result |-> parsePagination(q)]
    /\ UNCHANGED server

CallParseFilters ==
    /\ call = NoCall
    /\ \E q \in FilterQueries :
          call' = [fn |-> "parseFilters", query |-> q, result |-> parseFilters(q)]
    /\ UNCHANGED server

CallParseSearch ==
    /\ call = NoCall
    /\ \E q \in SearchQueries :
          call' = [fn |-> "parseSearch", query |-> q, result |-> parseSearch(q)]
    /\ UNCHANGED server

CallParseSorting ==
    /\ call = NoCall
    /\ \E q \in SortQueries :
          call' = [fn |-> "parseSorting", query |-> q, result |-> parseSorting(q)]
    /\ UNCHANGED server

\* the record of a call that was handed the array P and returned out
Transformed(fn, P, arg, out) ==
    [fn |-> fn, products |-> P, arg |-> arg,
     result |-> out.h[out.r], argAfter |-> out.h[1], sameArray |-> out.r = 1]

CallApplyFilters ==
    LET FilterSets == {parseFilters(q).value : q \in {x \in FilterQueries : parseFilters(x).ok}}
    IN
    /\ call = NoCall
    /\ \E P \in ProductSeqs, filters \in FilterSets :
          call' = Transformed("applyFilters", P, filters, applyFilters(<<P>>, 1, filters))
    /\ UNCHANGED server

CallApplySearch ==
    LET SearchSpecs == {parseSearch(q).value : q \in {x \in SearchQueries : parseSearch(x).ok}}
    IN
    /\ call = NoCall
    /\ \E P \in ProductSeqs, search \in SearchSpecs :
          call' = Transformed("applySearch", P, search, applySearch(<<P>>, 1, search))
    /\ UNCHANGED server

CallApplySorting ==
    LET SortSpecs == {parseSorting(q).value : q \in {x \in SortQueries : parseSorting(x).ok}}
    IN
    /\ call = NoCall
    /\ \E P \in ProductSeqs, sort \in SortSpecs :
          call' = Transformed("applySorting", P, sort, applySorting(<<P>>, 1, sort))
    /\ UNCHANGED server

CallApplyPagination ==
    LET \* the record of a call of applyPagination on the array P
        Paginated(P, pagination, out) ==
            [fn |-> "applyPagination", products |-> P, arg |-> pagination,
             result |-> out.h[out.data], pagination |-> out.pagination,
             argAfter |-> out.h[1], sameArray |-> out.data = 1]
    IN
    LET \* what the parsers return on those queries
        Paginations == {parsePagination(q).value : q \in {x \in PageQueries : parsePagination(x).ok}}
    IN
    /\ call = NoCall
    /\ \E P \in ProductSeqs, pagination \in Paginations :
          call' = Paginated(P, pagination, applyPagination(<<P>>, 1, pagination))
    /\ UNCHANGED server

\* new ErrorMetrics()
ErrorMetrics ==
    [totalErrors |-> 0, errorsByType |-> EmptyObject, errorsByStatusCode |-> EmptyObject,
     errorsByEndpoint |-> EmptyObject,
     errorsByTimeRange |-> [lastHour |-> <<>>, lastDay |-> <<>>, lastWeek |-> <<>>]]

NoRequest == [method |-> "", route |-> ""]
NoResponse == [status |-> 0]

Init ==
    /\ products = SeedProducts
    /\ clock = 0
    /\ request = NoRequest
    /\ response = NoResponse
    /\ trace = <<>>
    /\ call = NoCall
    /\ errorMetrics = ErrorMetrics



(***************************************************************************)
(* Properties of the QueryProcessor functions, checked under SpecQP.       *)
(***************************************************************************)
\* C2: applyFilters(P, F) is the subsequence of P, in order, of exactly the
\* products that satisfy every predicate F sets: category in F.category,
\* price >= F.price.min, price <= F.price.max (a bound of 0 is a bound like
\* any other), inStock = F.inStock; with an empty F the result is P.
C2_FilterExact ==
    call.fn = "applyFilters" =>
        LET F == call.arg
            Satisfies(p) ==
                /\ Has(F, "category") => Contains(F["category"], p.category)
                /\ (Has(F, "price") /\ Has(F["price"], "min")) => p.price >= F["price"]["min"]
                /\ (Has(F, "price") /\ Has(F["price"], "max")) => p.price <= F["price"]["max"]
                /\ Has(F, "inStock") => p.inStock = F["inStock"]
        IN  /\ call.result = SelectSeq(call.products, Satisfies)
            /\ F = EmptyObject => call.result = call.products

\* C2, the case that fails: a maximum price of 0 was parsed into the bound
\* 0, and applyFilters let through products that cost more
C2_ZeroBoundIgnored ==
    /\ call.fn = "applyFilters"
    /\ call.arg = "price" :> ("max" :> 0)
    /\ Len(call.products) > 0
    /\ call.result = call.products

\* C3: applySearch returns, in input order, exactly the products with at
\* least one listed field whose stringified value contains the term, the
\* values false and 0 included; a field the product does not have never
\* matches; without a term the result is the input.
C3_SearchExact ==
    call.fn = "applySearch" =>
        LET search == call.arg
            Matches(p) ==
                \E i \in 1..Len(search.fields) :
                    /\ TypeOf(search.fields[i]) # "undefined"
                    /\ Includes(ToLowerCase(FieldToString(p, search.fields[i])), search.term)
        IN  IF Has(search, "term")
            THEN call.result = SelectSeq(call.products, Matches)
            ELSE call.result = call.products

\* C3, the case that fails: the term "false" searched in inStock, a product
\* that is not in stock, and a result without it
C3_FalsyFieldSkipped ==
    /\ call.fn = "applySearch"
    /\ Has(call.arg, "term")
    /\ call.arg.term = <<"f","a","l","s","e">>
    /\ call.arg.fields = <<<<"i","n","S","t","o","c","k">>>>
    /\ \E i \in 1..Len(call.products) : ~call.products[i].inStock
    /\ call.result = <<>>

\* C4: parsePagination fails exactly when the supplied page is a number
\* below 1 or the supplied limit is a number outside 1..100; an absent or
\* non-numeric value is replaced by 1 and 10; a result has page >= 1,
\* 1 <= limit <= 100 and skip = offset = (page - 1) * limit.
C4_PaginationFailsIff ==
    call.fn = "parsePagination" =>
        LET q == call.query
            page == IF Has(q, "page") THEN ParseInt(q["page"]) ELSE NaN
            limit == IF Has(q, "limit") THEN ParseInt(q["limit"]) ELSE NaN
            r == call.result
        IN  /\ ~r.ok <=> \/ (~page.nan /\ page.v < 1)
                         \/ (~limit.nan /\ (limit.v < 1 \/ limit.v > 100))
            /\ r.ok =>
                /\ r.value.page = (IF page.nan THEN 1 ELSE page.v)
                /\ r.value.limit = (IF limit.nan THEN 10 ELSE limit.v)
                /\ r.value.page >= 1
                /\ r.value.limit >= 1 /\ r.value.limit <= 100
                /\ r.value.skip = (r.value.page - 1) * r.value.limit
                /\ r.value.offset = r.value.skip

\* C4, the case that fails: page 0 was accepted, as page 1
C4_PageZeroAccepted ==
    /\ call.fn = "parsePagination"
    /\ call.query = "page" :> <<"0">>
    /\ call.result.ok
    /\ call.result.value.page = 1

\* C5: the SortSpec parseSorting returns has order desc exactly when
\* sortOrder is the string "desc", and asc otherwise; only when neither
\* sortBy nor sortOrder is supplied is it createdAt, desc.
C5_SortOrderNormalized ==
    (call.fn = "parseSorting" /\ call.result.ok) =>
        LET q == call.query
            sort == call.result.value
        IN  IF ~Has(q, "sortBy") /\ ~Has(q, "sortOrder")
            THEN sort.field = <<"c","r","e","a","t","e","d","A","t">> /\ sort.order = <<"d","e","s","c">>
            ELSE IF Has(q, "sortOrder") /\ q["sortOrder"] = <<"d","e","s","c">>
            THEN sort.order = <<"d","e","s","c">>
            ELSE sort.order = <<"a","s","c">>

\* C5, the case that fails: sortOrder=asc without sortBy gave order desc
C5_AscendingIgnored ==
    /\ call.fn = "parseSorting"
    /\ call.query = "sortOrder" :> <<"a","s","c">>
    /\ call.result.ok
    /\ call.result.value.order = <<"d","e","s","c">>

\* C6: applySorting leaves the array it is handed as it was, and returns
\* another array.
C6_SortLeavesArgument ==
    call.fn = "applySorting" =>
        /\ call.argAfter = call.products
        /\ ~call.sameArray

\* C6, the case that fails: the array handed to applySorting is in another
\* order after the call, and it is the array the call returned
C6_ArgumentSorted ==
    /\ call.fn = "applySorting"
    /\ call.argAfter # call.products
    /\ call.sameArray

\* C9: applyPagination returns products[skip .. skip+limit), at most limit
\* items, with totalItems = total, totalPages = ceil(total / limit),
\* hasPrevPage = (page > 1) and hasNextPage = (skip + limit < total); a page
\* past the last one is empty.
C9_PaginationExact ==
    call.fn = "applyPagination" =>
        LET P == call.products
            total == Len(P)
            pg == call.arg
            data == call.result
            meta == call.pagination
            rest == IF total > pg.skip THEN total - pg.skip ELSE 0
        IN  /\ Len(data) = (IF rest < pg.limit THEN rest ELSE pg.limit)
            /\ Len(data) <= pg.limit
            /\ \A i \in 1..Len(data) : data[i] = P[pg.skip + i]
            /\ meta.totalItems = total
            /\ meta.totalPages * pg.limit >= total
            /\ (meta.totalPages - 1) * pg.limit < total
            /\ total = 0 => meta.totalPages = 0
            /\ meta.hasPrevPage = (pg.page > 1)
            /\ meta.hasNextPage = (pg.skip + pg.limit < total)
            /\ meta.currentPage > meta.totalPages => data = <<>>

\* C9 witness: the second page of three products, two to a page
C9_Witness ==
    /\ call.fn = "applyPagination"
    /\ Len(call.products) = 3
    /\ call.arg.page = 2 /\ call.arg.limit = 2
    /\ Len(call.result) = 1

\* the sort key of a product: the field's value, lower-cased when a string
SortKey(p, f) ==
    IF TypeOf(f) = "string" THEN ToLowerCase(p[KeyOf(f)]) ELSE p[KeyOf(f)]

\* the native order of two sort keys
KeyBelow(x, y, f) ==
    CASE TypeOf(f) = "string" -> StrLess(x, y)
      [] TypeOf(f) = "number" -> x < y
      [] TypeOf(f) = "boolean" -> ~x /\ y

\* the position of a product in a sequence of distinct products
PositionIn(s, p) == CHOOSE i \in 1..Len(s) : s[i] = p

\* C10: the result of applySorting is a permutation of the input, ordered
\* by the field (non-decreasing for asc, non-increasing for desc) on keys
\* that are case-folded when strings, and products with equal keys keep
\* the order they had in the input.
C10_SortedStable ==
    call.fn = "applySorting" =>
        LET P == call.products
            R == call.result
            f == call.arg.field
        IN  /\ Len(R) = Len(P)
            /\ {R[i] : i \in 1..Len(R)} = {P[i] : i \in 1..Len(P)}
            /\ \A i, j \in 1..Len(R) :
                    i < j =>
                        LET ki == SortKey(R[i], f)
                            kj == SortKey(R[j], f)
                        IN  /\ IF call.arg.order = <<"d","e","s","c">>
                               THEN ~KeyBelow(ki, kj, f)
                               ELSE ~KeyBelow(kj, ki, f)
                            /\ ki = kj => PositionIn(P, R[i]) < PositionIn(P, R[j])

\* C10 witness: a sort by name that moves "Zebra mug" behind both apple
\* pies and keeps the two pies, equal once folded, in their input order
C10_Witness ==
    /\ call.fn = "applySorting"
    /\ call.arg.field = <<"n","a","m","e">> /\ call.arg.order = <<"a","s","c">>
    /\ Len(call.products) = 3
    /\ call.products[1].name = <<"Z","e","b","r","a"," ","m","u","g">>
    /\ call.products[2].name = <<"a","p","p","l","e"," ","p","i","e">>
    /\ call.products[3].name = <<"A","p","p","l","e"," ","P","i","e">>
    /\ call.result[3].name = <<"Z","e","b","r","a"," ","m","u","g">>


(***************************************************************************)
(* The error taxonomy (errors/*.js) as far as the handlers use it: an      *)
(* error is an object; a null property is an absent key.                   *)
(***************************************************************************)
\* null, where a string is expected: a value no string equals
Null == <<"NULL">>

\* whether a string-or-null value is truthy
TruthyString(x) == x # Null /\ x # <<>>

\* new ValidationError(message, details, field)
ValidationError(message, details, field) ==
    [name |-> <<"V","a","l","i","d","a","t","i","o","n","E","r","r","o","r">>, message |-> message, statusCode |-> 400,
     errorCode |-> <<"V","A","L","I","D","A","T","I","O","N","_","E","R","R","O","R">>, isOperational |-> TRUE,
     details |-> details, field |-> field, errorType |-> <<"v","a","l","i","d","a","t","i","o","n">>]

\* new NotFoundError(resource, resourceId)
NotFoundError(resource, resourceId) ==
    [name |-> <<"N","o","t","F","o","u","n","d","E","r","r","o","r">>,
     message |-> IF TruthyString(resourceId)
                 THEN resource \o <<" ","w","i","t","h"," ","I","D"," ","'">> \o resourceId \o <<"'"," ","n","o","t"," ","f","o","u","n","d">>
                 ELSE resource \o <<" ","n","o","t"," ","f","o","u","n","d">>,
     statusCode |-> 404, errorCode |-> <<"R","E","S","O","U","R","C","E","_","N","O","T","_","F","O","U","N","D">>, isOperational |-> TRUE,
     resource |-> resource, resourceId |-> resourceId, errorType |-> <<"n","o","t","_","f","o","u","n","d">>]

\* new AuthenticationError(message, reason)
AuthenticationError(message, reason) ==
    [name |-> <<"A","u","t","h","e","n","t","i","c","a","t","i","o","n","E","r","r","o","r">>, message |-> message, statusCode |-> 401,
     errorCode |-> <<"A","U","T","H","E","N","T","I","C","A","T","I","O","N","_","E","R","R","O","R">>, isOperational |-> TRUE,
     reason |-> reason, errorType |-> <<"a","u","t","h","e","n","t","i","c","a","t","i","o","n">>]

\* new AuthorizationError(message, requiredPermission), the role being null
AuthorizationError(message, requiredPermission) ==
    [name |-> <<"A","u","t","h","o","r","i","z","a","t","i","o","n","E","r","r","o","r">>, message |-> message, statusCode |-> 403,
     errorCode |-> <<"A","U","T","H","O","R","I","Z","A","T","I","O","N","_","E","R","R","O","R">>, isOperational |-> TRUE,
     requiredPermission |-> requiredPermission, errorType |-> <<"a","u","t","h","o","r","i","z","a","t","i","o","n">>]

\* globalErrorHandler: the status and the body that answer an error
ErrorResponse(err) == [status |-> err.statusCode, body |-> err]

\* res.status(status).json(body)
JsonResponse(status, body) == [status |-> status, body |-> body]

(***************************************************************************)
(* Middleware (middleware/auth.js, middleware/validation.js,               *)
(* middleware/queryValidation.js).  Each gives next(): the request as it   *)
(* goes on, or the error handed to the error handler.                      *)
(***************************************************************************)
\* a request header that is not sent
NoKey == <<>>

authenticateApiKey(apiKey) ==
    LET validApiKeys == <<<<"d","e","v","-","k","e","y","-","1","2","3","4","5">>, <<"t","e","s","t","-","k","e","y","-","6","7","8","9","0">>, <<"a","d","m","i","n","-","k","e","y","-","a","b","c","d","e","f">>>>
    IN
    IF apiKey = NoKey
    THEN Throw(AuthenticationError(
            <<"A","P","I"," ","k","e","y"," ","i","s"," ","r","e","q","u","i","r","e","d","."," ","P","l","e","a","s","e"," ","p","r","o","v","i","d","e"," ","X","-","A","P","I","-","K","e","y"," ","h","e","a","d","e","r",".">>, <<"M","I","S","S","I","N","G","_","A","P","I","_","K","E","Y">>))
    ELSE IF ~Contains(validApiKeys, apiKey)
    THEN Throw(AuthenticationError(<<"I","n","v","a","l","i","d"," ","A","P","I"," ","k","e","y"," ","p","r","o","v","i","d","e","d",".">>, <<"I","N","V","A","L","I","D","_","A","P","I","_","K","E","Y">>))
    ELSE Return([apiKey |-> apiKey,
                 role |-> IF Includes(apiKey, <<"a","d","m","i","n">>) THEN <<"a","d","m","i","n">> ELSE <<"u","s","e","r">>,
                 permissions |-> IF Includes(apiKey, <<"a","d","m","i","n">>)
                                 THEN <<<<"r","e","a","d">>, <<"w","r","i","t","e">>, <<"d","e","l","e","t","e">>>>
                                 ELSE <<<<"r","e","a","d">>, <<"w","r","i","t","e">>>>])

\* a check that lets every authenticated user pass
requirePermissionAuthenticated(user, permission) == Return(user)

\* requirePermission(permission), for the user that authenticateApiKey set
requirePermission(user, permission) ==
    IF ~Contains(user.permissions, permission)
    THEN Throw(AuthorizationError(<<"A","c","c","e","s","s"," ","d","e","n","i","e","d","."," ","R","e","q","u","i","r","e","d"," ","p","e","r","m","i","s","s","i","o","n",":"," ">> \o permission,
                                  permission))
    ELSE Return(user)

\* /^[0-9a-f]{8}-[0-9a-f]{4}-[1-5][0-9a-f]{3}-[89ab][0-9a-f]{3}-[0-9a-f]{12}$/i
uuidRegexTest(id) ==
    LET IsHex(c) ==
            \/ IsDigit(c)
            \/ (CodeOf[LowerOf[c]] >= 97 /\ CodeOf[LowerOf[c]] <= 102)
    IN
    /\ Len(id) = 36
    /\ \A i \in 1..36 :
          CASE i \in {9, 14, 19, 24} -> id[i] = "-"
            [] i = 15 -> id[i] \in {"1", "2", "3", "4", "5"}
            [] i = 20 -> LowerOf[id[i]] \in {"8", "9", "a", "b"}
            [] OTHER -> IsHex(id[i])

validateProductId(id) ==
    IF id = <<>> \/ Len(Trim(id)) = 0
    THEN Throw(ValidationError(<<"P","r","o","d","u","c","t"," ","I","D"," ","i","s"," ","r","e","q","u","i","r","e","d"," ","a","n","d"," ","m","u","s","t"," ","b","e"," ","a"," ","v","a","l","i","d"," ","s","t","r","i","n","g">>,
                               <<<<"P","r","o","d","u","c","t"," ","I","D"," ","p","a","r","a","m","e","t","e","r"," ","i","s"," ","m","i","s","s","i","n","g"," ","o","r"," ","i","n","v","a","l","i","d">>>>, <<"i","d">>))
    ELSE IF id # <<"1">> /\ id # <<"2">> /\ id # <<"3">> /\ ~uuidRegexTest(id)
    THEN Throw(ValidationError(<<"P","r","o","d","u","c","t"," ","I","D"," ","m","u","s","t"," ","b","e"," ","a"," ","v","a","l","i","d"," ","U","U","I","D"," ","f","o","r","m","a","t"," ","o","r"," ","l","e","g","a","c","y"," ","I","D">>,
                               <<<<"I","D"," ","m","u","s","t"," ","b","e"," ","a"," ","v","a","l","i","d"," ","U","U","I","D"," ","o","r"," ","l","e","g","a","c","y"," ","I","D"," ","(","1",","," ","2",","," ","3",")">>>>, <<"i","d">>))
    ELSE Return(id)

\* a validation that falls back on the default order when parseSorting fails
validateProductQueryDefaultSort(query) ==
    LET Checked(pagination, filters, search, sort) ==
            LET failed == IF ~pagination.ok THEN pagination
                          ELSE IF ~filters.ok THEN filters
                          ELSE search
            IN  IF ~failed.ok
                THEN Throw(ValidationError(<<"Q","u","e","r","y"," ","v","a","l","i","d","a","t","i","o","n"," ","e","r","r","o","r",":"," ">> \o failed.message,
                                           <<failed.message>>, <<"q","u","e","r","y">>))
                ELSE Return([query |-> query, pagination |-> pagination.value,
                             filters |-> filters.value, search |-> search.value,
                             sort |-> IF sort.ok THEN sort.value
                                      ELSE [field |-> <<"c","r","e","a","t","e","d","A","t">>, order |-> <<"d","e","s","c">>]])
    IN  Checked(parsePagination(query), parseFilters(query), parseSearch(query),
                parseSorting(query))

\* the parsed query that validateProductQuery leaves on the request
validateProductQuery(query) ==
    LET Checked(pagination, filters, search, sort) ==
            LET failed == IF ~pagination.ok THEN pagination
                          ELSE IF ~filters.ok THEN filters
                          ELSE IF ~search.ok THEN search
                          ELSE sort
            IN  IF ~failed.ok
                THEN Throw(ValidationError(<<"Q","u","e","r","y"," ","v","a","l","i","d","a","t","i","o","n"," ","e","r","r","o","r",":"," ">> \o failed.message,
                                           <<failed.message>>, <<"q","u","e","r","y">>))
                ELSE Return([query |-> query, pagination |-> pagination.value,
                             filters |-> filters.value, search |-> search.value,
                             sort |-> sort.value])
    IN  Checked(parsePagination(query), parseFilters(query), parseSearch(query),
                parseSorting(query))

\* the names of the keys of a query as strings
KeyChars(k) ==
    CASE k = "page" -> <<"p","a","g","e">>
      [] k = "limit" -> <<"l","i","m","i","t">>
      [] k = "category" -> <<"c","a","t","e","g","o","r","y">>
      [] k = "minPrice" -> <<"m","i","n","P","r","i","c","e">>
      [] k = "maxPrice" -> <<"m","a","x","P","r","i","c","e">>
      [] k = "inStock" -> <<"i","n","S","t","o","c","k">>
      [] k = "q" -> <<"q">>
      [] k = "search" -> <<"s","e","a","r","c","h">>
      [] k = "fields" -> <<"f","i","e","l","d","s">>
      [] k = "sortBy" -> <<"s","o","r","t","B","y">>
      [] k = "sortOrder" -> <<"s","o","r","t","O","r","d","e","r">>
      [] k = "detailed" -> <<"d","e","t","a","i","l","e","d">>
      [] k = "format" -> <<"f","o","r","m","a","t">>

validateStatsQuery(query) ==
    LET QueryKeys ==
            <<"page", "limit", "category", "minPrice", "maxPrice", "inStock", "q",
              "search", "fields", "sortBy", "sortOrder", "detailed", "format">>
        allowedParams == {"category", "detailed", "format"}
        IsInvalid(k) == Has(query, k) /\ k \notin allowedParams
        Names(invalid) == [i \in 1..Len(invalid) |-> KeyChars(invalid[i])]
        Checked(message) ==
            IF message # <<>>
            THEN Throw(ValidationError(<<"S","t","a","t","s"," ","q","u","e","r","y"," ","e","r","r","o","r",":"," ">> \o message, <<message>>,
                                       <<"s","t","a","t","s","Q","u","e","r","y">>))
            ELSE Return(query)
    IN  Checked(IF DOMAIN query \ allowedParams # {}
                THEN <<"I","n","v","a","l","i","d"," ","p","a","r","a","m","e","t","e","r","s",":"," ">>
                     \o JoinComma(Names(SelectSeq(QueryKeys, IsInvalid)))
                     \o <<"."," ","A","l","l","o","w","e","d",":"," ","c","a","t","e","g","o","r","y",","," ","d","e","t","a","i","l","e","d",","," ","f","o","r","m","a","t">>
                ELSE IF TruthyParam(query, "detailed")
                        /\ query["detailed"] \notin {<<"t","r","u","e">>, <<"f","a","l","s","e">>}
                THEN <<"d","e","t","a","i","l","e","d"," ","p","a","r","a","m","e","t","e","r"," ","m","u","s","t"," ","b","e"," ","\"","t","r","u","e","\""," ","o","r"," ","\"","f","a","l","s","e","\"">>
                ELSE IF TruthyParam(query, "format")
                        /\ query["format"] \notin {<<"j","s","o","n">>, <<"s","u","m","m","a","r","y">>}
                THEN <<"f","o","r","m","a","t"," ","p","a","r","a","m","e","t","e","r"," ","m","u","s","t"," ","b","e"," ","\"","j","s","o","n","\""," ","o","r"," ","\"","s","u","m","m","a","r","y","\"">>
                ELSE <<>>)


validateProductCreation(body) ==
    LET \* the checks of validateProductCreation, on a body whose values have the
        \* types the API documents (strings, a number, a boolean)
        CreationErrors(sent) ==
            (IF ~TruthyParam(sent, "name") \/ Len(Trim(sent["name"])) = 0
             THEN <<<<"N","a","m","e"," ","i","s"," ","r","e","q","u","i","r","e","d"," ","a","n","d"," ","m","u","s","t"," ","b","e"," ","a"," ","n","o","n","-","e","m","p","t","y"," ","s","t","r","i","n","g">>>> ELSE <<>>)
            \o (IF ~TruthyParam(sent, "description") \/ Len(Trim(sent["description"])) = 0
                THEN <<<<"D","e","s","c","r","i","p","t","i","o","n"," ","i","s"," ","r","e","q","u","i","r","e","d"," ","a","n","d"," ","m","u","s","t"," ","b","e"," ","a"," ","n","o","n","-","e","m","p","t","y"," ","s","t","r","i","n","g">>>> ELSE <<>>)
            \o (IF ~Has(sent, "price") THEN <<<<"P","r","i","c","e"," ","i","s"," ","r","e","q","u","i","r","e","d">>>>
                ELSE IF sent["price"] <= 0 THEN <<<<"P","r","i","c","e"," ","m","u","s","t"," ","b","e"," ","a"," ","p","o","s","i","t","i","v","e"," ","n","u","m","b","e","r">>>> ELSE <<>>)
            \o (IF ~TruthyParam(sent, "category") \/ Len(Trim(sent["category"])) = 0
                THEN <<<<"C","a","t","e","g","o","r","y"," ","i","s"," ","r","e","q","u","i","r","e","d"," ","a","n","d"," ","m","u","s","t"," ","b","e"," ","a"," ","n","o","n","-","e","m","p","t","y"," ","s","t","r","i","n","g">>>> ELSE <<>>)
            \o (IF ~Has(sent, "inStock") THEN <<<<"I","n","S","t","o","c","k"," ","s","t","a","t","u","s"," ","i","s"," ","r","e","q","u","i","r","e","d">>>> ELSE <<>>)
            \o (IF TruthyParam(sent, "name") /\ Len(Trim(sent["name"])) > 100
                THEN <<<<"N","a","m","e"," ","m","u","s","t"," ","b","e"," ","l","e","s","s"," ","t","h","a","n"," ","1","0","0"," ","c","h","a","r","a","c","t","e","r","s">>>> ELSE <<>>)
            \o (IF TruthyParam(sent, "description") /\ Len(Trim(sent["description"])) > 500
                THEN <<<<"D","e","s","c","r","i","p","t","i","o","n"," ","m","u","s","t"," ","b","e"," ","l","e","s","s"," ","t","h","a","n"," ","5","0","0"," ","c","h","a","r","a","c","t","e","r","s">>>> ELSE <<>>)
            \o (IF Has(sent, "price") /\ (sent["price"] > 99999900 \/ sent["price"] < 1)
                THEN <<<<"P","r","i","c","e"," ","m","u","s","t"," ","b","e"," ","b","e","t","w","e","e","n"," ","0",".","0","1"," ","a","n","d"," ","9","9","9","9","9","9">>>> ELSE <<>>)
            \o (IF TruthyParam(sent, "category")
                   /\ ~Contains(validCategories, ToLowerCase(Trim(sent["category"])))
                THEN <<<<"C","a","t","e","g","o","r","y"," ","m","u","s","t"," ","b","e"," ","o","n","e"," ","o","f",":"," ">> \o JoinComma(validCategories)>> ELSE <<>>)
    IN
    LET Checked(errors) ==
            IF Len(errors) > 0
            THEN Throw(ValidationError(<<"P","r","o","d","u","c","t"," ","v","a","l","i","d","a","t","i","o","n"," ","f","a","i","l","e","d">>, errors, Null))
            ELSE Return([name |-> Trim(body["name"]),
                         description |-> Trim(body["description"]),
                         price |-> body["price"],
                         category |-> ToLowerCase(Trim(body["category"])),
                         inStock |-> body["inStock"]])
    IN  Checked(CreationErrors(body))

\* the checks of validateProductUpdate, on a body typed in the same way
UpdateErrors(body) ==
    (IF ~Has(body, "name") THEN <<>>
     ELSE IF Len(Trim(body["name"])) = 0 THEN <<<<"N","a","m","e"," ","m","u","s","t"," ","b","e"," ","a"," ","n","o","n","-","e","m","p","t","y"," ","s","t","r","i","n","g">>>>
     ELSE IF Len(Trim(body["name"])) > 100 THEN <<<<"N","a","m","e"," ","m","u","s","t"," ","b","e"," ","l","e","s","s"," ","t","h","a","n"," ","1","0","0"," ","c","h","a","r","a","c","t","e","r","s">>>>
     ELSE <<>>)
    \o (IF ~Has(body, "description") THEN <<>>
        ELSE IF Len(Trim(body["description"])) = 0
        THEN <<<<"D","e","s","c","r","i","p","t","i","o","n"," ","m","u","s","t"," ","b","e"," ","a"," ","n","o","n","-","e","m","p","t","y"," ","s","t","r","i","n","g">>>>
        ELSE IF Len(Trim(body["description"])) > 500
        THEN <<<<"D","e","s","c","r","i","p","t","i","o","n"," ","m","u","s","t"," ","b","e"," ","l","e","s","s"," ","t","h","a","n"," ","5","0","0"," ","c","h","a","r","a","c","t","e","r","s">>>>
        ELSE <<>>)
    \o (IF ~Has(body, "price") THEN <<>>
        ELSE IF body["price"] <= 0 THEN <<<<"P","r","i","c","e"," ","m","u","s","t"," ","b","e"," ","a"," ","p","o","s","i","t","i","v","e"," ","n","u","m","b","e","r">>>>
        ELSE IF body["price"] > 99999900 \/ body["price"] < 1
        THEN <<<<"P","r","i","c","e"," ","m","u","s","t"," ","b","e"," ","b","e","t","w","e","e","n"," ","0",".","0","1"," ","a","n","d"," ","9","9","9","9","9","9">>>>
        ELSE <<>>)
    \o (IF ~Has(body, "category") THEN <<>>
        ELSE IF Len(Trim(body["category"])) = 0
        THEN <<<<"C","a","t","e","g","o","r","y"," ","m","u","s","t"," ","b","e"," ","a"," ","n","o","n","-","e","m","p","t","y"," ","s","t","r","i","n","g">>>>
        ELSE IF ~Contains(validCategories, ToLowerCase(Trim(body["category"])))
        THEN <<<<"C","a","t","e","g","o","r","y"," ","m","u","s","t"," ","b","e"," ","o","n","e"," ","o","f",":"," ">> \o JoinComma(validCategories)>>
        ELSE <<>>)

\* a validation that hands the body on as it came
validateProductUpdateAsSent(body) ==
    LET Checked(errors) ==
            IF Len(errors) > 0
            THEN Throw(ValidationError(<<"P","r","o","d","u","c","t"," ","u","p","d","a","t","e"," ","v","a","l","i","d","a","t","i","o","n"," ","f","a","i","l","e","d">>, errors, Null))
            ELSE Return(body)
    IN  Checked(UpdateErrors(body))

validateProductUpdate(body) ==
    LET Checked(errors) ==
            IF Len(errors) > 0
            THEN Throw(ValidationError(<<"P","r","o","d","u","c","t"," ","u","p","d","a","t","e"," ","v","a","l","i","d","a","t","i","o","n"," ","f","a","i","l","e","d">>, errors, Null))
            ELSE Return((IF Has(body, "name") THEN "name" :> Trim(body["name"])
                         ELSE EmptyObject)
                        @@ (IF Has(body, "description")
                            THEN "description" :> Trim(body["description"])
                            ELSE EmptyObject)
                        @@ (IF Has(body, "price") THEN "price" :> body["price"]
                            ELSE EmptyObject)
                        @@ (IF Has(body, "category")
                            THEN "category" :> ToLowerCase(Trim(body["category"]))
                            ELSE EmptyObject)
                        @@ (IF Has(body, "inStock") THEN "inStock" :> body["inStock"]
                            ELSE EmptyObject))
    IN  Checked(UpdateErrors(body))


(***************************************************************************)
(* Route handlers (server.js).  A handler runs on the heap whose first     *)
(* array is the collection, `products`, and gives the heap it leaves, the  *)
(* response, and the QueryProcessor calls it made with the array each was  *)
(* handed.                                                                 *)
(***************************************************************************)
\* the reference of the collection
StoreRef == 1

\* the handler's state after a QueryProcessor call: out is what it returned
Logged(fn, st, out) ==
    [h |-> out.h, r |-> out.r, log |-> Append(st.log, [fn |-> fn, arg |-> st.r])]

\* the outcome of a handler
Outcome(h, res, log) == [h |-> h, response |-> res, log |-> log]

\* [...products]
CopyOfStore(h) ==
    LET State(copy) == [h |-> copy.h, r |-> copy.r, log |-> <<>>]
    IN  State(NewArray(h, h[StoreRef]))

\* a faulty GET /api/products that filters before it searches
GetProductsHandlerFilterFirst(h, req) ==
    LET Respond(log, result) ==
            Outcome(result.h,
                    JsonResponse(200, [success |-> TRUE,
                                       data |-> result.h[result.data],
                                       pagination |-> result.pagination,
                                       resultsFound |-> Len(result.h[result.data])]),
                    log)
        Paginate(st3) ==
            Respond(Append(st3.log, [fn |-> "applyPagination", arg |-> st3.r]),
                    applyPagination(st3.h, st3.r, req.pagination))
        Sort(st2) ==
            Paginate(Logged("applySorting", st2, applySorting(st2.h, st2.r, req.sort)))
        Search(st1) ==
            Sort(IF Has(req.search, "term") /\ req.search.term # <<>>
                 THEN Logged("applySearch", st1, applySearch(st1.h, st1.r, req.search))
                 ELSE st1)
        Filter(st0) ==
            Search(Logged("applyFilters", st0, applyFilters(st0.h, st0.r, req.filters)))
    IN  Filter(CopyOfStore(h))

\* a faulty GET /api/products that sorts `products` itself before it
\* searches and filters
GetProductsHandlerInPlace(h, req) ==
    LET Respond(log, result) ==
            Outcome(result.h,
                    JsonResponse(200, [success |-> TRUE,
                                       data |-> result.h[result.data],
                                       pagination |-> result.pagination,
                                       resultsFound |-> Len(result.h[result.data])]),
                    log)
        Paginate(st3) ==
            Respond(Append(st3.log, [fn |-> "applyPagination", arg |-> st3.r]),
                    applyPagination(st3.h, st3.r, req.pagination))
        Filter(st2) ==
            Paginate(Logged("applyFilters", st2, applyFilters(st2.h, st2.r, req.filters)))
        Search(st1) ==
            Filter(IF Has(req.search, "term") /\ req.search.term # <<>>
                   THEN Logged("applySearch", st1, applySearch(st1.h, st1.r, req.search))
                   ELSE st1)
        Sort(st0) ==
            Search(Logged("applySorting", st0, applySorting(st0.h, st0.r, req.sort)))
    IN  Sort([h |-> h, r |-> StoreRef, log |-> <<>>])

\* GET /api/products, after validateProductQuery
GetProductsHandler(h, req) ==
    LET Respond(log, result) ==
            Outcome(result.h,
                    JsonResponse(200, [success |-> TRUE,
                                       data |-> result.h[result.data],
                                       pagination |-> result.pagination,
                                       resultsFound |-> Len(result.h[result.data])]),
                    log)
        Paginate(st3) ==
            Respond(Append(st3.log, [fn |-> "applyPagination", arg |-> st3.r]),
                    applyPagination(st3.h, st3.r, req.pagination))
        Sort(st2) ==
            Paginate(Logged("applySorting", st2, applySorting(st2.h, st2.r, req.sort)))
        Filter(st1) ==
            Sort(Logged("applyFilters", st1, applyFilters(st1.h, st1.r, req.filters)))
        Search(st0) ==
            Filter(IF Has(req.search, "term") /\ req.search.term # <<>>
                   THEN Logged("applySearch", st0, applySearch(st0.h, st0.r, req.search))
                   ELSE st0)
    IN  Search(CopyOfStore(h))

\* GET /api/products/search, after validateProductQuery
SearchProductsHandler(h, req) ==
    IF ~(Has(req.search, "term") /\ req.search.term # <<>>)
    THEN Outcome(h, ErrorResponse(ValidationError(<<"S","e","a","r","c","h"," ","t","e","r","m"," ","i","s"," ","r","e","q","u","i","r","e","d">>, <<<<"Q","u","e","r","y"," ","p","a","r","a","m","e","t","e","r"," ","\"","q","\""," ","o","r"," ","\"","s","e","a","r","c","h","\""," ","i","s"," ","r","e","q","u","i","r","e","d">>>>, <<"s","e","a","r","c","h">>)), <<>>)
    ELSE
        LET Respond(st3, log, result) ==
                Outcome(result.h,
                        JsonResponse(200, [success |-> TRUE,
                                           data |-> result.h[result.data],
                                           pagination |-> result.pagination,
                                           resultsFound |-> Len(st3.h[st3.r])]),
                        log)
            Paginate(st3) ==
                Respond(st3, Append(st3.log, [fn |-> "applyPagination", arg |-> st3.r]),
                        applyPagination(st3.h, st3.r, req.pagination))
            Sort(st2) ==
                Paginate(Logged("applySorting", st2, applySorting(st2.h, st2.r, req.sort)))
            Filter(st1) ==
                Sort(Logged("applyFilters", st1, applyFilters(st1.h, st1.r, req.filters)))
            Search(st0) ==
                Filter(Logged("applySearch", st0, applySearch(st0.h, st0.r, req.search)))
        IN  Search(CopyOfStore(h))

\* GET /api/products/stats, after validateStatsQuery; of the statistics the
\* response keeps the number of products they were computed over
GetStatsHandler(h, query) ==
    LET Respond(analytics) ==
            Outcome(analytics.h,
                    JsonResponse(200, [success |-> TRUE,
                                       totalProducts |-> Len(analytics.h[analytics.r])]),
                    <<>>)
        Filtered(copy, categories) ==
            LET InCategories(p) == Contains(categories, p.category)
            IN  NewArray(copy.h, SelectSeq(copy.h[copy.r], InCategories))
        Analyse(copy) ==
            Respond(IF TruthyCategory(query)
                    THEN Filtered(copy, [i \in 1..Len(query["category"].items) |->
                                            ToLowerCase(query["category"].items[i])])
                    ELSE copy)
    IN  Analyse(NewArray(h, h[StoreRef]))

\* GET /api/products/categories; of the per-category figures the response
\* keeps the two totals of its meta block
GetCategoriesHandler(h) ==
    Outcome(h,
            JsonResponse(200, [success |-> TRUE,
                               totalCategories |->
                                   Cardinality({h[StoreRef][i].category :
                                                   i \in 1..Len(h[StoreRef])}),
                               totalProducts |-> Len(h[StoreRef])]),
            <<>>)

\* products.findIndex(p => p.id === productId), 0 when there is none
FindIndex(s, productId) ==
    IF \E i \in 1..Len(s) : s[i].id = productId
    THEN CHOOSE i \in 1..Len(s) :
            s[i].id = productId /\ \A j \in 1..(i - 1) : s[j].id # productId
    ELSE 0

\* a faulty GET /api/products/:id whose NotFoundError lacks the id
GetProductByIdHandlerNoId(h, productId) ==
    LET Found(index) ==
            IF index = 0
            THEN Outcome(h, ErrorResponse(NotFoundError(<<"P","r","o","d","u","c","t">>, Null)), <<>>)
            ELSE Outcome(h, JsonResponse(200, [success |-> TRUE,
                                               data |-> h[StoreRef][index]]), <<>>)
    IN  Found(FindIndex(h[StoreRef], productId))

\* GET /api/products/:id, after validateProductId
GetProductByIdHandler(h, productId) ==
    LET Found(index) ==
            IF index = 0
            THEN Outcome(h, ErrorResponse(NotFoundError(<<"P","r","o","d","u","c","t">>, productId)), <<>>)
            ELSE Outcome(h, JsonResponse(200, [success |-> TRUE,
                                               data |-> h[StoreRef][index]]), <<>>)
    IN  Found(FindIndex(h[StoreRef], productId))

\* POST /api/products, after requirePermission and validateProductCreation
CreateProductHandler(h, body, uuid, now) ==
    LET Push(newProduct) ==
            Outcome([h EXCEPT ![StoreRef] = Append(h[StoreRef], newProduct)],
                    JsonResponse(201, [success |-> TRUE, data |-> newProduct]), <<>>)
    IN  Push(Product(uuid, Trim(body.name), Trim(body.description), body.price,
                     ToLowerCase(Trim(body.category)), body.inStock, now, now))

\* { ...product, ...body, updatedAt: now }
Updated(product, body, now) == ("updatedAt" :> now) @@ body @@ product

\* PUT /api/products/:id, after requirePermission, validateProductId and
\* validateProductUpdate
UpdateProductHandler(h, productId, body, now) ==
    LET Store(productIndex, updatedProduct) ==
            Outcome([h EXCEPT ![StoreRef][productIndex] = updatedProduct],
                    JsonResponse(200, [success |-> TRUE, data |-> updatedProduct]), <<>>)
        Found(productIndex) ==
            IF productIndex = 0
            THEN Outcome(h, ErrorResponse(NotFoundError(<<"P","r","o","d","u","c","t">>, productId)), <<>>)
            ELSE Store(productIndex, Updated(h[StoreRef][productIndex], body, now))
    IN  Found(FindIndex(h[StoreRef], productId))

\* a handler that splices at the index findIndex gave, found or not:
\* splice(-1, 1) takes the last product away
DeleteProductHandlerUnchecked(h, productId) ==
    LET Found(productIndex) ==
            IF productIndex = 0
            THEN Outcome([h EXCEPT ![StoreRef] = SubSeq(h[StoreRef], 1, Len(h[StoreRef]) - 1)],
                         ErrorResponse(NotFoundError(<<"P","r","o","d","u","c","t">>, productId)), <<>>)
            ELSE Outcome([h EXCEPT ![StoreRef] =
                             SubSeq(h[StoreRef], 1, productIndex - 1)
                             \o SubSeq(h[StoreRef], productIndex + 1, Len(h[StoreRef]))],
                         JsonResponse(200, [success |-> TRUE,
                                            data |-> h[StoreRef][productIndex]]), <<>>)
    IN  Found(FindIndex(h[StoreRef], productId))

\* DELETE /api/products/:id, after requirePermission and validateProductId
DeleteProductHandler(h, productId) ==
    LET \* Array.prototype.splice(index, 1)
        RemoveAt(s, index) == SubSeq(s, 1, index - 1) \o SubSeq(s, index + 1, Len(s))
        Found(productIndex) ==
            IF productIndex = 0
            THEN Outcome(h, ErrorResponse(NotFoundError(<<"P","r","o","d","u","c","t">>, productId)), <<>>)
            ELSE Outcome([h EXCEPT ![StoreRef] = RemoveAt(h[StoreRef], productIndex)],
                         JsonResponse(200, [success |-> TRUE,
                                            data |-> h[StoreRef][productIndex]]), <<>>)
    IN  Found(FindIndex(h[StoreRef], productId))


(***************************************************************************)
(* Routes: the middleware in front of each handler, then the handler.      *)
(***************************************************************************)
\* next(error): the error handler answers, the collection is not touched
Failed(store, thrown) == Outcome(<<store>>, ErrorResponse(thrown.message), <<>>)

GetProductsRoute(store, apiKey, query) ==
    LET Go(auth, req) ==
            IF ~auth.ok THEN Failed(store, auth)
            ELSE IF ~req.ok THEN Failed(store, req)
            ELSE GetProductsHandler(<<store>>, req.value)
    IN  Go(authenticateApiKey(apiKey), validateProductQuery(query))

SearchProductsRoute(store, apiKey, query) ==
    LET Go(auth, req) ==
            IF ~auth.ok THEN Failed(store, auth)
            ELSE IF ~req.ok THEN Failed(store, req)
            ELSE SearchProductsHandler(<<store>>, req.value)
    IN  Go(authenticateApiKey(apiKey), validateProductQuery(query))

GetStatsRoute(store, apiKey, query) ==
    LET Go(auth, req) ==
            IF ~auth.ok THEN Failed(store, auth)
            ELSE IF ~req.ok THEN Failed(store, req)
            ELSE GetStatsHandler(<<store>>, req.value)
    IN  Go(authenticateApiKey(apiKey), validateStatsQuery(query))

GetCategoriesRoute(store, apiKey) ==
    LET Go(auth) ==
            IF ~auth.ok THEN Failed(store, auth)
            ELSE GetCategoriesHandler(<<store>>)
    IN  Go(authenticateApiKey(apiKey))

GetProductByIdRoute(store, apiKey, id) ==
    LET Go(auth, valid) ==
            IF ~auth.ok THEN Failed(store, auth)
            ELSE IF ~valid.ok THEN Failed(store, valid)
            ELSE GetProductByIdHandler(<<store>>, id)
    IN  Go(authenticateApiKey(apiKey), validateProductId(id))

CreateProductRoute(store, apiKey, body, uuid, now) ==
    LET Go(auth, valid) ==
            LET allowed == requirePermission(auth.value, <<"w","r","i","t","e">>)
            IN  IF ~auth.ok THEN Failed(store, auth)
                ELSE IF ~allowed.ok THEN Failed(store, allowed)
                ELSE IF ~valid.ok THEN Failed(store, valid)
                ELSE CreateProductHandler(<<store>>, valid.value, uuid, now)
    IN  Go(authenticateApiKey(apiKey), validateProductCreation(body))

UpdateProductRoute(store, apiKey, id, body, now) ==
    LET Go(auth, validId, valid) ==
            LET allowed == requirePermission(auth.value, <<"w","r","i","t","e">>)
            IN  IF ~auth.ok THEN Failed(store, auth)
                ELSE IF ~allowed.ok THEN Failed(store, allowed)
                ELSE IF ~validId.ok THEN Failed(store, validId)
                ELSE IF ~valid.ok THEN Failed(store, valid)
                ELSE UpdateProductHandler(<<store>>, id, valid.value, now)
    IN  Go(authenticateApiKey(apiKey), validateProductId(id), validateProductUpdate(body))

DeleteProductRoute(store, apiKey, id) ==
    LET Go(auth, validId) ==
            LET allowed == requirePermission(auth.value, <<"d","e","l","e","t","e">>)
            IN  IF ~auth.ok THEN Failed(store, auth)
                ELSE IF ~allowed.ok THEN Failed(store, allowed)
                ELSE IF ~validId.ok THEN Failed(store, validId)
                ELSE DeleteProductHandler(<<store>>, id)
    IN  Go(authenticateApiKey(apiKey), validateProductId(id))

(***************************************************************************)
(* Requests.                                                               *)
(***************************************************************************)
DevKey == <<"d","e","v","-","k","e","y","-","1","2","3","4","5">>
AdminKey == <<"a","d","m","i","n","-","k","e","y","-","a","b","c","d","e","f">>

ApiKeys == {NoKey, <<"g","u","e","s","s">>, <<"a","d","m","i","n">>, DevKey, AdminKey}

ListQueries ==
    { EmptyObject,
      "category" :> One(<<"E","l","e","c","t","r","o","n","i","c","s">>),
      "category" :> One(<<"b","o","g","u","s">>),
      ("minPrice" :> <<"1","0","0">>) @@ ("maxPrice" :> <<"3","0","0">>),
      "maxPrice" :> <<"0">>,
      "inStock" :> <<"f","a","l","s","e">>,
      "q" :> <<"p","r","o">>,
      "q" :> <<"a">>,
      ("q" :> <<"f","a","l","s","e">>) @@ ("fields" :> <<"i","n","S","t","o","c","k">>),
      ("q" :> <<"P","r","e","m","i","u","m">>) @@ ("category" :> Many(<<<<"k","i","t","c","h","e","n">>, <<"e","l","e","c","t","r","o","n","i","c","s">>>>))
          @@ ("sortBy" :> <<"p","r","i","c","e">>) @@ ("sortOrder" :> <<"d","e","s","c">>),
      "sortBy" :> <<"n","a","m","e">>,
      "sortBy" :> <<"r","a","t","i","n","g">>,
      "sortOrder" :> <<"a","s","c">>,
      ("sortBy" :> <<"p","r","i","c","e">>) @@ ("sortOrder" :> <<"d","e","s","c">>) @@ ("page" :> <<"1">>)
          @@ ("limit" :> <<"2">>),
      ("page" :> <<"2">>) @@ ("limit" :> <<"3">>),
      "page" :> <<"9">>,
      "page" :> <<"-","1">> }

(***************************************************************************)
(* StatsCalculator.  Prices and sums are in cents, percentages in          *)
(* hundredths of a percent.  A number that may be infinite is a record:    *)
(* inf is 1 for Infinity, -1 for -Infinity and 0 for the finite number n.  *)
(***************************************************************************)
Finite(n) == [inf |-> 0, n |-> n]
Infinity == [inf |-> 1, n |-> 0]
NegInfinity == [inf |-> -1, n |-> 0]

MathMin(a, b) ==
    IF a.inf < b.inf THEN a
    ELSE IF b.inf < a.inf THEN b
    ELSE IF a.n <= b.n THEN a ELSE b

MathMax(a, b) ==
    IF a.inf > b.inf THEN a
    ELSE IF b.inf > a.inf THEN b
    ELSE IF a.n >= b.n THEN a ELSE b

\* parseFloat((a / b).toFixed(2)) in the unit of a: the quotient to the
\* nearest unit.  The model counts in exact cents and takes a half up; the
\* code rounds the binary value of the quotient, which on a half cent may
\* lie on either side.
RoundDiv(a, b) == (2 * a + b) \div (2 * b)

\* products.reduce((sum, p) => sum + p.price, 0)
RECURSIVE SumPrices(_)
SumPrices(s) == IF s = <<>> THEN 0 ELSE Head(s).price + SumPrices(Tail(s))

calculateOverview(productList) ==
    LET \* Number.prototype.toFixed(2) of a percentage
        ToFixed2(h) ==
            NatToString(h \div 100) \o <<".">> \o NatToString((h % 100) \div 10)
                \o NatToString(h % 10)
        InStock(p) == p.inStock
        Overview(totalProducts, inStockProducts, totalValue) ==
            [totalProducts |-> totalProducts,
             inStockProducts |-> inStockProducts,
             outOfStockProducts |-> totalProducts - inStockProducts,
             stockPercentage |-> IF totalProducts > 0
                                 THEN ToFixed2(RoundDiv(inStockProducts * 10000, totalProducts))
                                 ELSE 0,
             totalValue |-> totalValue,
             averagePrice |-> IF totalProducts > 0 THEN RoundDiv(totalValue, totalProducts)
                              ELSE 0,
             uniqueCategories |-> Cardinality({productList[i].category : i \in 1..Len(productList)})]
    IN  Overview(Len(productList), Len(SelectSeq(productList, InStock)), SumPrices(productList))

\* a calculateCategoryStats whose minimum starts from 0
calculateCategoryStatsMinFromZero(productList) ==
    LET Created == [count |-> 0, inStock |-> 0, outOfStock |-> 0, totalValue |-> 0,
                    averagePrice |-> 0, minPrice |-> Finite(0), maxPrice |-> NegInfinity,
                    products |-> <<>>]
        Counted(stats, product) ==
            [stats EXCEPT !.count = @ + 1,
                          !.inStock = @ + (IF product.inStock THEN 1 ELSE 0),
                          !.outOfStock = @ + (IF product.inStock THEN 0 ELSE 1),
                          !.totalValue = @ + product.price,
                          !.minPrice = MathMin(@, Finite(product.price)),
                          !.maxPrice = MathMax(@, Finite(product.price)),
                          !.products = Append(@, [id |-> product.id, name |-> product.name,
                                                  price |-> product.price,
                                                  inStock |-> product.inStock])]
        RECURSIVE ForEach(_, _)
        ForEach(categoryStats, todo) ==
            IF todo = <<>> THEN categoryStats
            ELSE ForEach((Head(todo).category :>
                             Counted(IF Has(categoryStats, Head(todo).category)
                                     THEN categoryStats[Head(todo).category]
                                     ELSE Created,
                                     Head(todo)))
                         @@ categoryStats,
                         Tail(todo))
        Formatted(stats) ==
            [count |-> stats.count, inStock |-> stats.inStock, outOfStock |-> stats.outOfStock,
             totalValue |-> stats.totalValue,
             averagePrice |-> RoundDiv(stats.totalValue, stats.count),
             minPrice |-> IF stats.minPrice = Infinity THEN Finite(0) ELSE stats.minPrice,
             maxPrice |-> IF stats.maxPrice = NegInfinity THEN Finite(0) ELSE stats.maxPrice,
             products |-> stats.products,
             stockPercentage |-> RoundDiv(stats.inStock * 10000, stats.count)]
        Finish(categoryStats) ==
            [category \in DOMAIN categoryStats |-> Formatted(categoryStats[category])]
    IN  Finish(ForEach(EmptyObject, productList))

\* one entry per category that has a product: created on the first product
\* of the category, updated by each, averaged and formatted at the end
calculateCategoryStats(productList) ==
    LET Created == [count |-> 0, inStock |-> 0, outOfStock |-> 0, totalValue |-> 0,
                    averagePrice |-> 0, minPrice |-> Infinity, maxPrice |-> NegInfinity,
                    products |-> <<>>]
        Counted(stats, product) ==
            [stats EXCEPT !.count = @ + 1,
                          !.inStock = @ + (IF product.inStock THEN 1 ELSE 0),
                          !.outOfStock = @ + (IF product.inStock THEN 0 ELSE 1),
                          !.totalValue = @ + product.price,
                          !.minPrice = MathMin(@, Finite(product.price)),
                          !.maxPrice = MathMax(@, Finite(product.price)),
                          !.products = Append(@, [id |-> product.id, name |-> product.name,
                                                  price |-> product.price,
                                                  inStock |-> product.inStock])]
        RECURSIVE ForEach(_, _)
        ForEach(categoryStats, todo) ==
            IF todo = <<>> THEN categoryStats
            ELSE ForEach((Head(todo).category :>
                             Counted(IF Has(categoryStats, Head(todo).category)
                                     THEN categoryStats[Head(todo).category]
                                     ELSE Created,
                                     Head(todo)))
                         @@ categoryStats,
                         Tail(todo))
        Formatted(stats) ==
            [count |-> stats.count, inStock |-> stats.inStock, outOfStock |-> stats.outOfStock,
             totalValue |-> stats.totalValue,
             averagePrice |-> RoundDiv(stats.totalValue, stats.count),
             minPrice |-> IF stats.minPrice = Infinity THEN Finite(0) ELSE stats.minPrice,
             maxPrice |-> IF stats.maxPrice = NegInfinity THEN Finite(0) ELSE stats.maxPrice,
             products |-> stats.products,
             stockPercentage |-> RoundDiv(stats.inStock * 10000, stats.count)]
        Finish(categoryStats) ==
            [category \in DOMAIN categoryStats |-> Formatted(categoryStats[category])]
    IN  Finish(ForEach(EmptyObject, productList))

\* the statistics of the sorted prices; reading a property of a price that
\* is not there is a TypeError.  Of a distribution bucket the model keeps
\* the range and the count.
PricingOf(prices) ==
    LET n == Len(prices)
        Below(lo, hi) == Cardinality({i \in 1..n : prices[i] >= lo /\ prices[i] < hi})
        From(lo) == Cardinality({i \in 1..n : prices[i] >= lo})
        q1Index == n \div 4
        q3Index == (3 * n) \div 4
        median == IF n % 2 = 0 THEN RoundDiv(prices[n \div 2] + prices[n \div 2 + 1], 2)
                  ELSE prices[n \div 2 + 1]
    IN  IF n = 0
        THEN Throw(<<"T","y","p","e","E","r","r","o","r",":"," ","C","a","n","n","o","t"," ","r","e","a","d"," ","p","r","o","p","e","r","t","i","e","s"," ","o","f"," ","u","n","d","e","f","i","n","e","d"," ","(","r","e","a","d","i","n","g"," ","'","t","o","F","i","x","e","d","'",")">>)
        ELSE Return([min |-> prices[1],
                     max |-> prices[n],
                     average |-> RoundDiv(SumPrices([i \in 1..n |-> [price |-> prices[i]]]), n),
                     median |-> median,
                     quartiles |-> [q1 |-> prices[q1Index + 1], q3 |-> prices[q3Index + 1]],
                     priceRanges |-> [under25 |-> Below(0, 2500),
                                      from25to50 |-> Below(2500, 5000),
                                      from50to100 |-> Below(5000, 10000),
                                      from100to500 |-> Below(10000, 50000),
                                      from500to1000 |-> Below(50000, 100000),
                                      over1000 |-> From(100000)],
                     distribution |->
                         << [range |-> <<"Q","1"," ","(","0","-","2","5","%",")">>, count |-> q1Index + 1],
                            [range |-> <<"Q","2"," ","(","2","5","-","5","0","%",")">>, count |-> n \div 2 - q1Index],
                            [range |-> <<"Q","3"," ","(","5","0","-","7","5","%",")">>, count |-> q3Index - n \div 2],
                            [range |-> <<"Q","4"," ","(","7","5","-","1","0","0","%",")">>, count |-> n - q3Index] >>])

\* products.map(p => p.price).sort((a, b) => a - b)
SortedPrices(productList) ==
    LET RECURSIVE Insert(_, _)
        Insert(done, x) ==
            IF done = <<>> THEN <<x>>
            ELSE IF x < Head(done) THEN <<x>> \o done
            ELSE <<Head(done)>> \o Insert(Tail(done), x)
        RECURSIVE Sort(_, _)
        Sort(done, todo) ==
            IF todo = <<>> THEN done ELSE Sort(Insert(done, Head(todo).price), Tail(todo))
    IN  Sort(<<>>, productList)

\* a calculatePricingStats without the early return on no products
calculatePricingStatsUnguarded(productList) == PricingOf(SortedPrices(productList))

calculatePricingStats(productList) ==
    IF Len(productList) = 0
    THEN Return([min |-> 0, max |-> 0, average |-> 0, median |-> 0,
                 priceRanges |-> EmptyObject, distribution |-> <<>>])
    ELSE PricingOf(SortedPrices(productList))

calculateInventoryStats(productList) ==
    LET InStock(p) == p.inStock
        OutOfStock(p) == ~p.inStock
        \* Math.max(...prices) and Math.min(...prices)
        RECURSIVE Spread(_, _, _)
        Spread(s, least, acc) ==
            IF s = <<>> THEN acc
            ELSE Spread(Tail(s), least,
                        IF least THEN MathMin(acc, Finite(Head(s).price))
                        ELSE MathMax(acc, Finite(Head(s).price)))
        \* inStockProducts.find(p => p.price === bound), shaped for the report
        Find(s, bound) ==
            IF \E i \in 1..Len(s) : Finite(s[i].price) = bound
            THEN LET p == s[CHOOSE i \in 1..Len(s) :
                              /\ Finite(s[i].price) = bound
                              /\ \A j \in 1..(i - 1) : Finite(s[j].price) # bound]
                 IN  [id |-> p.id, name |-> p.name, price |-> p.price, category |-> p.category]
            ELSE Null
        Of(category) == SelectSeq(productList, LAMBDA p : p.category = category)
        Inventory(totalProducts, inStockProducts, outOfStockProducts) ==
            [totalProducts |-> totalProducts,
             inStockCount |-> Len(inStockProducts),
             outOfStockCount |-> Len(outOfStockProducts),
             stockPercentage |-> IF totalProducts > 0
                                 THEN RoundDiv(Len(inStockProducts) * 10000, totalProducts)
                                 ELSE 0,
             mostExpensiveInStock |-> Find(inStockProducts, Spread(inStockProducts, FALSE, NegInfinity)),
             cheapestInStock |-> Find(inStockProducts, Spread(inStockProducts, TRUE, Infinity)),
             byCategory |-> [category \in {productList[i].category : i \in 1..Len(productList)} |->
                                [inStock |-> Len(SelectSeq(Of(category), InStock)),
                                 outOfStock |-> Len(SelectSeq(Of(category), OutOfStock)),
                                 total |-> Len(Of(category))]]]
    IN  Inventory(Len(productList), SelectSeq(productList, InStock), SelectSeq(productList, OutOfStock))

\* the five sections of the report; of the trends, which are fixed figures
\* next to a count by creation date, the model keeps the fixed figures
calculateProductStats(productList) ==
    LET Stats(pricing) ==
            IF ~pricing.ok THEN pricing
            ELSE Return([overview |-> calculateOverview(productList),
                         byCategory |-> calculateCategoryStats(productList),
                         pricing |-> pricing.value,
                         inventory |-> calculateInventoryStats(productList),
                         trends |-> [priceGrowth |-> [trend |-> <<"s","t","a","b","l","e">>, percentage |-> 0,
                                                      period |-> <<"3","0"," ","d","a","y","s">>],
                                     inventoryTurnover |-> [rate |-> <<"n","o","r","m","a","l">>]]])
    IN  Stats(calculatePricingStats(productList))

CallCalculateProductStats ==
    /\ call = NoCall
    /\ \E P \in ProductSeqs :
          call' = [fn |-> "calculateProductStats", products |-> P,
                   result |-> calculateProductStats(P)]
    /\ UNCHANGED server

\* the digits of a page or of a limit of the query string
Decimal(n) == << <<"1","2","3","4","5","6","7","8","9">>[n] >>

\* GET /api/products served from a collection holding P: the query is
\* validated and parsed, then searched, filtered, sorted and paginated
CallGetProducts ==
    LET PipelineQueries ==
            {p @@ l @@ c :
                p \in Opt("page", {Decimal(1), Decimal(2)}),
                l \in Opt("limit", {Decimal(n) : n \in 1..MaxLen}),
                c \in Opt("category", {One(<<"b","o","o","k","s">>)})}
        Served(P, query, out) ==
            [fn |-> "getProducts", products |-> P, query |-> query,
             result |-> out.response, after |-> out.h[StoreRef]]
    IN
    /\ call = NoCall
    /\ \E P \in ProductSeqs, query \in PipelineQueries :
          call' = Served(P, query, GetProductsRoute(P, DevKey, query))
    /\ UNCHANGED server

NextQP ==
    \/ CallParsePagination
    \/ CallParseFilters
    \/ CallParseSearch
    \/ CallParseSorting
    \/ CallApplyFilters
    \/ CallApplySearch
    \/ CallApplySorting
    \/ CallApplyPagination
    \/ CallGetProducts
    \/ CallCalculateProductStats

SpecQP == Init /\ [][NextQP]_vars

\* ids a request can name: seeded ones, well-formed ones, malformed ones
RequestIds ==
    { <<"1">>, <<"3">>, <<"4">>, <<"9","9">>, <<" ">>, <<"n","o","t","-","a","-","u","u","i","d">>, Uuids[1], Uuids[2],
      <<"3","f","0","c","8","a","2","e","-","7","d","4","1","-","4","c","6","b","-","8","a","5","5","-","0","e","9","b","1","c","2","d","3","f","4","a">>, <<"3","f","0","c","8","a","2","e","-","7","d","4","1","-","6","c","6","b","-","8","a","5","5","-","0","e","9","b","1","c","2","d","3","f","4","a">> }

\* the request is served: its outcome becomes the state
Serve(req, out) ==
    /\ request = NoRequest
    /\ request' = req
    /\ products' = out.h[StoreRef]
    /\ response' = out.response
    /\ trace' = out.log

\* a write is served: time passes when it succeeds
ServeWrite(req, out) ==
    /\ Serve(req, out)
    /\ out.response.status >= 400 \/ clock < MaxWrites
    /\ clock' = IF out.response.status >= 400 THEN clock ELSE clock + 1

GetProducts ==
    /\ \E apiKey \in {NoKey, DevKey}, query \in ListQueries :
          Serve([method |-> "GET", route |-> "/api/products", apiKey |-> apiKey,
                 query |-> query],
                GetProductsRoute(products, apiKey, query))
    /\ UNCHANGED <<clock, call, errorMetrics>>

SearchProducts ==
    LET SearchRouteQueries ==
            { EmptyObject,
              "q" :> <<"p","r","o">>,
              "q" :> <<"x">>,
              ("q" :> <<"l","a","p","t","o","p">>) @@ ("maxPrice" :> <<"1","0","0","0">>),
              ("search" :> <<"c","o","f","f","e","e">>) @@ ("inStock" :> <<"f","a","l","s","e">>) @@ ("sortBy" :> <<"p","r","i","c","e">>),
              "category" :> One(<<"b","o","o","k","s">>) }
    IN
    /\ \E apiKey \in {NoKey, DevKey}, query \in SearchRouteQueries :
          Serve([method |-> "GET", route |-> "/api/products/search", apiKey |-> apiKey,
                 query |-> query],
                SearchProductsRoute(products, apiKey, query))
    /\ UNCHANGED <<clock, call, errorMetrics>>

GetStats ==
    LET StatsQueries ==
            { EmptyObject,
              "category" :> One(<<"K","i","t","c","h","e","n">>),
              ("category" :> Many(<<<<"t","o","y","s">>, <<"b","o","o","k","s">>>>)) @@ ("detailed" :> <<"t","r","u","e">>),
              "format" :> <<"s","u","m","m","a","r","y">>,
              "format" :> <<"x","m","l">>,
              "page" :> <<"1">> }
    IN
    /\ \E apiKey \in {NoKey, DevKey}, query \in StatsQueries :
          Serve([method |-> "GET", route |-> "/api/products/stats", apiKey |-> apiKey,
                 query |-> query],
                GetStatsRoute(products, apiKey, query))
    /\ UNCHANGED <<clock, call, errorMetrics>>

GetCategories ==
    /\ \E apiKey \in {NoKey, DevKey} :
          Serve([method |-> "GET", route |-> "/api/products/categories",
                 apiKey |-> apiKey],
                GetCategoriesRoute(products, apiKey))
    /\ UNCHANGED <<clock, call, errorMetrics>>

GetProductById ==
    /\ \E apiKey \in ApiKeys, id \in RequestIds :
          Serve([method |-> "GET", route |-> "/api/products/:id", apiKey |-> apiKey,
                 id |-> id],
                GetProductByIdRoute(products, apiKey, id))
    /\ UNCHANGED <<clock, call, errorMetrics>>

CreateProduct ==
    LET \* the identifiers uuidv4() can still hand out
        FreshUuids ==
            {Uuids[i] : i \in 1..Len(Uuids)} \ {products[i].id : i \in 1..Len(products)}
    IN
    LET CreateBodies ==
            { [name |-> <<" ","D","e","s","k"," ","L","a","m","p"," ">>, description |-> <<"W","a","r","m"," ","l","i","g","h","t">>, price |-> 2500,
               category |-> <<"O","t","h","e","r">>, inStock |-> TRUE],
              [name |-> <<"g","a","m","i","n","g"," ","l","a","p","t","o","p"," ","p","r","o">>, description |-> <<"R","e","f","u","r","b","i","s","h","e","d">>, price |-> 159999,
               category |-> <<"e","l","e","c","t","r","o","n","i","c","s">>, inStock |-> FALSE],
              [name |-> <<>>, description |-> <<"N","o"," ","n","a","m","e">>, price |-> 0,
               category |-> <<"g","a","r","d","e","n">>, inStock |-> TRUE] }
    IN
    /\ \E apiKey \in ApiKeys, body \in CreateBodies, uuid \in FreshUuids :
          ServeWrite([method |-> "POST", route |-> "/api/products", apiKey |-> apiKey,
                      body |-> body],
                     CreateProductRoute(products, apiKey, body, uuid, Now(clock)))
    /\ UNCHANGED <<call, errorMetrics>>

UpdateProduct ==
    LET UpdateBodies ==
            { EmptyObject,
              "name" :> <<" "," ","a","a","r","d","v","a","r","k"," "," ">>,
              ("price" :> 100) @@ ("inStock" :> FALSE) @@ ("category" :> <<"T","o","y","s">>),
              "price" :> 0,
              ("id" :> <<"1">>) @@ ("createdAt" :> <<"1","9","9","9","-","0","1","-","0","1","T","0","0",":","0","0",":","0","0",".","0","0","0","Z">>)
                  @@ ("description" :> <<"R","e","n","a","m","e","d">>) }
    IN
    /\ \E apiKey \in ApiKeys, id \in RequestIds, body \in UpdateBodies :
          ServeWrite([method |-> "PUT", route |-> "/api/products/:id", apiKey |-> apiKey,
                      id |-> id, body |-> body],
                     UpdateProductRoute(products, apiKey, id, body, Now(clock)))
    /\ UNCHANGED <<call, errorMetrics>>

DeleteProduct ==
    /\ \E apiKey \in ApiKeys, id \in RequestIds :
          ServeWrite([method |-> "DELETE", route |-> "/api/products/:id",
                      apiKey |-> apiKey, id |-> id],
                     DeleteProductRoute(products, apiKey, id))
    /\ UNCHANGED <<call, errorMetrics>>

\* the response has left: the server waits for the next request
SendResponse ==
    /\ request # NoRequest
    /\ request' = NoRequest
    /\ response' = NoResponse
    /\ trace' = <<>>
    /\ UNCHANGED <<products, clock, call, errorMetrics>>

Next ==
    \/ GetProducts
    \/ SearchProducts
    \/ GetStats
    \/ GetCategories
    \/ GetProductById
    \/ CreateProduct
    \/ UpdateProduct
    \/ DeleteProduct
    \/ SendResponse

Spec == Init /\ [][Next]_vars


(***************************************************************************)
(* Properties of the routes, checked under Spec.                           *)
(***************************************************************************)
\* a product-listing or product-search request that was answered with a page
Listed ==
    /\ request.method = "GET"
    /\ request.route \in {"/api/products", "/api/products/search"}
    /\ response.status = 200

\* the functions of the calls of a trace, in order
Fns(t) == [i \in 1..Len(t) |-> t[i].fn]

\* the place of each transformation in the order filter, search, sort,
\* paginate
ClaimedRank(fn) ==
    CASE fn = "applyFilters" -> 1
      [] fn = "applySearch" -> 2
      [] fn = "applySorting" -> 3
      [] fn = "applyPagination" -> 4

\* C1, as stated: on a listing or search request the transformations run on
\* a copy of the collection in the order applyFilters, applySearch,
\* applySorting, applyPagination.
C1_FilterThenSearch ==
    Listed =>
        /\ \A i, j \in 1..Len(trace) :
              i < j => ClaimedRank(trace[i].fn) < ClaimedRank(trace[j].fn)
        /\ \A i \in 1..Len(trace) : trace[i].arg # StoreRef

\* C1, amended: on a listing or search request the transformations run on a
\* copy of the collection in the order applySearch (only when a search term
\* is given), applyFilters, applySorting, applyPagination.
C1_SearchThenFilter ==
    Listed =>
        /\ Fns(trace) =
              (IF TruthyParam(request.query, "q") \/ TruthyParam(request.query, "search")
               THEN <<"applySearch">> ELSE <<>>)
              \o <<"applyFilters", "applySorting", "applyPagination">>
        /\ \A i \in 1..Len(trace) : trace[i].arg # StoreRef

\* C1 witness: a listing with a search term and a category filter, answered
\* after all four transformations
C1_Witness ==
    /\ Listed
    /\ request.route = "/api/products"
    /\ TruthyParam(request.query, "q")
    /\ Has(request.query, "category")
    /\ Len(trace) = 4
    /\ Len(response.body.data) > 0

\* C7: a read request (list, search, stats, categories, get by id) leaves
\* the stored collection as it was: same products, same values, same order.
C7_ReadsKeepCollection ==
    [][request'.method = "GET" => products' = products]_vars

\* C7 witness: a listing sorted by a field was answered with the products in
\* another order than the collection holds them, which still is the seed
C7_Witness ==
    /\ Listed
    /\ Has(request.query, "sortBy")
    /\ Len(response.body.data) > 1
    /\ response.body.data[1] # products[1]
    /\ products = SeedProducts

\* the caller of the request holds a valid key with the permission the
\* route asks for
Permitted(req) ==
    /\ authenticateApiKey(req.apiKey).ok
    /\ req.method = "PUT" =>
          requirePermission(authenticateApiKey(req.apiKey).value, <<"w","r","i","t","e">>).ok
    /\ req.method = "DELETE" =>
          requirePermission(authenticateApiKey(req.apiKey).value, <<"d","e","l","e","t","e">>).ok

\* a request on /api/products/:id by a permitted caller, for an id that no
\* product of the collection has
MissingId(req, collection) ==
    /\ req.route = "/api/products/:id"
    /\ Permitted(req)
    /\ \A i \in 1..Len(collection) : collection[i].id # req.id

\* the response is the NotFound error for the product id
IsNotFound(res, id) ==
    /\ res.status = 404
    /\ res.body.statusCode = 404
    /\ res.body.errorCode = <<"R","E","S","O","U","R","C","E","_","N","O","T","_","F","O","U","N","D">>
    /\ res.body.resource = <<"P","r","o","d","u","c","t">>
    /\ res.body.resourceId = id

\* C8, as stated: a GET, PUT or DELETE on /api/products/:id by a permitted
\* caller, for an id no product has, is answered with the NotFound error
\* (404, RESOURCE_NOT_FOUND, resource Product, resourceId the id), whatever
\* the form of the id.
C8_AnyIdNotFound ==
    [][MissingId(request', products) => IsNotFound(response', request'.id)]_vars

\* C8, amended: it is answered with the NotFound error when the id has the
\* form validateProductId accepts ('1', '2', '3' or a UUID) and, for a PUT,
\* the body passes validateProductUpdate.
C8_WellFormedIdNotFound ==
    [][(/\ MissingId(request', products)
        /\ request'.id \in {<<"1">>, <<"2">>, <<"3">>} \/ uuidRegexTest(request'.id)
        /\ request'.method = "PUT" => UpdateErrors(request'.body) = <<>>)
            => IsNotFound(response', request'.id)]_vars

\* C8 witness: a DELETE of a well-formed id that no product has was
\* answered with the NotFound error
C8_Witness ==
    /\ request.method = "DELETE"
    /\ uuidRegexTest(request.id)
    /\ Permitted(request)
    /\ IsNotFound(response, request.id)


(***************************************************************************)
(* The error boundary (errors/CustomError.js, errors/index.js,             *)
(* config/errorConfig.js, utils/errorMetrics.js,                           *)
(* middleware/errorHandler.js).  Times (timestamp, debug.errorId) are left *)
(* out of the objects; console output is not modelled.                     *)
(***************************************************************************)
\* new CustomError(message, statusCode, errorCode)
CustomError(message, statusCode, errorCode) ==
    [name |-> <<"C","u","s","t","o","m","E","r","r","o","r">>, message |-> message, statusCode |-> statusCode,
     errorCode |-> errorCode, isOperational |-> TRUE]

\* an error that is no CustomError: a native or a library error, with the
\* own properties extra (statusCode, code) when it carries them
NativeError(name, message, extra) ==
    [native |-> TRUE, name |-> name, message |-> message] @@ extra

\* error instanceof CustomError
InstanceOfCustomError(error) == ~Has(error, "native")

\* a conversion without the case of the CastError
fromNativeErrorNoCast(error) ==
    IF InstanceOfCustomError(error) THEN error
    ELSE IF error.name = <<"V","a","l","i","d","a","t","i","o","n","E","r","r","o","r">>
    THEN ValidationError(error.message, <<error.message>>, Null)
    ELSE IF error.name = <<"S","y","n","t","a","x","E","r","r","o","r">> /\ Includes(error.message, <<"J","S","O","N">>)
    THEN ValidationError(<<"I","n","v","a","l","i","d"," ","J","S","O","N"," ","f","o","r","m","a","t">>, <<<<"R","e","q","u","e","s","t"," ","b","o","d","y"," ","m","u","s","t"," ","b","e"," ","v","a","l","i","d"," ","J","S","O","N">>>>, Null)
    ELSE CustomError(IF error.message # <<>> THEN error.message
                     ELSE <<"I","n","t","e","r","n","a","l"," ","s","e","r","v","e","r"," ","e","r","r","o","r">>,
                     IF Has(error, "statusCode") /\ error["statusCode"] # 0
                     THEN error["statusCode"] ELSE 500,
                     IF Has(error, "code") /\ error["code"] # <<>> THEN error["code"]
                     ELSE <<"I","N","T","E","R","N","A","L","_","E","R","R","O","R">>)

\* ErrorFactory.fromNativeError
fromNativeError(error) ==
    IF InstanceOfCustomError(error) THEN error
    ELSE IF error.name = <<"V","a","l","i","d","a","t","i","o","n","E","r","r","o","r">>
    THEN ValidationError(error.message, <<error.message>>, Null)
    ELSE IF error.name = <<"C","a","s","t","E","r","r","o","r">>
    THEN ValidationError(<<"I","n","v","a","l","i","d"," ","d","a","t","a"," ","f","o","r","m","a","t">>, <<error.message>>, Null)
    ELSE IF error.name = <<"S","y","n","t","a","x","E","r","r","o","r">> /\ Includes(error.message, <<"J","S","O","N">>)
    THEN ValidationError(<<"I","n","v","a","l","i","d"," ","J","S","O","N"," ","f","o","r","m","a","t">>, <<<<"R","e","q","u","e","s","t"," ","b","o","d","y"," ","m","u","s","t"," ","b","e"," ","v","a","l","i","d"," ","J","S","O","N">>>>, Null)
    ELSE CustomError(IF error.message # <<>> THEN error.message
                     ELSE <<"I","n","t","e","r","n","a","l"," ","s","e","r","v","e","r"," ","e","r","r","o","r">>,
                     IF Has(error, "statusCode") /\ error["statusCode"] # 0 THEN error["statusCode"] ELSE 500,
                     IF Has(error, "code") /\ error["code"] # <<>> THEN error["code"]
                     ELSE <<"I","N","T","E","R","N","A","L","_","E","R","R","O","R">>)

\* process.env.NODE_ENV when it is not set
Unset == <<"UNDEFINED">>

\* errorConfig: the keys of each configuration that the handler reads
errorConfig(env) ==
    CASE env = <<"d","e","v","e","l","o","p","m","e","n","t">> ->
            [includeStackTrace |-> TRUE, includeErrorDetails |-> TRUE,
             enableVerboseLogging |-> TRUE]
      [] env = <<"p","r","o","d","u","c","t","i","o","n">> ->
            [includeStackTrace |-> FALSE, includeErrorDetails |-> FALSE,
             enableVerboseLogging |-> FALSE,
             genericMessages |-> (500 :> <<"I","n","t","e","r","n","a","l"," ","s","e","r","v","e","r"," ","e","r","r","o","r"," ","o","c","c","u","r","r","e","d">>)
                                 @@ (400 :> <<"B","a","d"," ","r","e","q","u","e","s","t">>)
                                 @@ (401 :> <<"A","u","t","h","e","n","t","i","c","a","t","i","o","n"," ","r","e","q","u","i","r","e","d">>)
                                 @@ (403 :> <<"A","c","c","e","s","s"," ","f","o","r","b","i","d","d","e","n">>)
                                 @@ (404 :> <<"R","e","s","o","u","r","c","e"," ","n","o","t"," ","f","o","u","n","d">>)]
      [] env = <<"t","e","s","t">> ->
            [includeStackTrace |-> TRUE, includeErrorDetails |-> TRUE,
             enableVerboseLogging |-> FALSE]

\* a rendering that writes the default status into every body
CustomErrorToJSONDefaultStatus(error, NODE_ENV) ==
    [success |-> FALSE, message |-> error.message, error |-> error.errorCode,
     statusCode |-> 500]
    @@ (IF NODE_ENV = <<"d","e","v","e","l","o","p","m","e","n","t">>
        THEN ("stack" :> <<"s","t","a","c","k">>) @@ ("name" :> error.name)
        ELSE EmptyObject)

\* CustomError.prototype.toJSON; the stack is a mark that it is there
CustomErrorToJSON(error, NODE_ENV) ==
    [success |-> FALSE, message |-> error.message, error |-> error.errorCode,
     statusCode |-> error.statusCode]
    @@ (IF NODE_ENV = <<"d","e","v","e","l","o","p","m","e","n","t">>
        THEN ("stack" :> <<"s","t","a","c","k">>) @@ ("name" :> error.name)
        ELSE EmptyObject)

\* error.toJSON(), by the class of the error
toJSON(error, NODE_ENV) ==
    LET \* NotFoundError.prototype.getSuggestions
        getSuggestions(e) ==
            (IF e.resource = <<"P","r","o","d","u","c","t">>
             THEN <<<<"C","h","e","c","k"," ","i","f"," ","t","h","e"," ","p","r","o","d","u","c","t"," ","I","D"," ","i","s"," ","c","o","r","r","e","c","t">>,
                    <<"U","s","e"," ","G","E","T"," ","/","a","p","i","/","p","r","o","d","u","c","t","s"," ","t","o"," ","l","i","s","t"," ","a","l","l"," ","a","v","a","i","l","a","b","l","e"," ","p","r","o","d","u","c","t","s">>,
                    <<"E","n","s","u","r","e"," ","t","h","e"," ","p","r","o","d","u","c","t"," ","e","x","i","s","t","s"," ","a","n","d"," ","h","a","s","n","'","t"," ","b","e","e","n"," ","d","e","l","e","t","e","d">>>>
             ELSE <<>>)
            \o (IF e.resource = <<"R","o","u","t","e">>
                THEN <<<<"C","h","e","c","k"," ","t","h","e"," ","A","P","I"," ","d","o","c","u","m","e","n","t","a","t","i","o","n"," ","f","o","r"," ","v","a","l","i","d"," ","e","n","d","p","o","i","n","t","s">>,
                       <<"E","n","s","u","r","e"," ","y","o","u","'","r","e"," ","u","s","i","n","g"," ","t","h","e"," ","c","o","r","r","e","c","t"," ","H","T","T","P"," ","m","e","t","h","o","d">>,
                       <<"V","e","r","i","f","y"," ","t","h","e"," ","U","R","L"," ","p","a","t","h"," ","i","s"," ","c","o","r","r","e","c","t">>>>
                ELSE <<>>)
    IN
    LET \* AuthorizationError.prototype.getSolutions, the required role being null
        getSolutions(e) ==
            (IF TruthyString(e.requiredPermission)
             THEN <<<<"E","n","s","u","r","e"," ","y","o","u","r"," ","A","P","I"," ","k","e","y"," ","h","a","s"," ","'">> \o e.requiredPermission \o <<"'"," ","p","e","r","m","i","s","s","i","o","n">>,
                    <<"C","o","n","t","a","c","t"," ","a","d","m","i","n","i","s","t","r","a","t","o","r"," ","t","o"," ","u","p","g","r","a","d","e"," ","y","o","u","r"," ","a","c","c","e","s","s"," ","l","e","v","e","l">>>>
             ELSE <<>>)
            \o <<<<"C","h","e","c","k"," ","t","h","e"," ","A","P","I"," ","d","o","c","u","m","e","n","t","a","t","i","o","n"," ","f","o","r"," ","r","e","q","u","i","r","e","d"," ","p","e","r","m","i","s","s","i","o","n","s">>>>
    IN
    LET \* AuthenticationError.prototype.getHints
        getHints(e) ==
            IF e.reason = <<"M","I","S","S","I","N","G","_","A","P","I","_","K","E","Y">>
            THEN <<<<"A","d","d"," ","h","e","a","d","e","r",":"," ","X","-","A","P","I","-","K","e","y",":"," ","d","e","v","-","k","e","y","-","1","2","3","4","5">>,
                   <<"I","n","c","l","u","d","e"," ","t","h","e"," ","A","P","I"," ","k","e","y"," ","i","n"," ","y","o","u","r"," ","r","e","q","u","e","s","t"," ","h","e","a","d","e","r","s">>>>
            ELSE IF e.reason = <<"I","N","V","A","L","I","D","_","A","P","I","_","K","E","Y">>
            THEN <<<<"U","s","e"," ","o","n","e"," ","o","f",":"," ","d","e","v","-","k","e","y","-","1","2","3","4","5",","," ","t","e","s","t","-","k","e","y","-","6","7","8","9","0",","," ","a","d","m","i","n","-","k","e","y","-","a","b","c","d","e","f">>,
                   <<"C","h","e","c","k"," ","i","f"," ","y","o","u","r"," ","A","P","I"," ","k","e","y"," ","i","s"," ","s","p","e","l","l","e","d"," ","c","o","r","r","e","c","t","l","y">>>>
            ELSE IF e.reason = <<"E","X","P","I","R","E","D","_","A","P","I","_","K","E","Y">>
            THEN <<<<"C","o","n","t","a","c","t"," ","a","d","m","i","n","i","s","t","r","a","t","o","r"," ","f","o","r"," ","a"," ","n","e","w"," ","A","P","I"," ","k","e","y">>,
                   <<"C","h","e","c","k"," ","i","f"," ","y","o","u","r"," ","s","u","b","s","c","r","i","p","t","i","o","n"," ","i","s"," ","s","t","i","l","l"," ","a","c","t","i","v","e">>>>
            ELSE <<>>
    IN
    CASE error.name = <<"V","a","l","i","d","a","t","i","o","n","E","r","r","o","r">> ->
            CustomErrorToJSON(error, NODE_ENV)
            @@ ("details" :> error.details)
            @@ (IF TruthyString(error.field) THEN "field" :> error.field ELSE EmptyObject)
            @@ ("errorType" :> error.errorType)
      [] error.name = <<"N","o","t","F","o","u","n","d","E","r","r","o","r">> ->
            CustomErrorToJSON(error, NODE_ENV)
            @@ ("resource" :> error.resource)
            @@ (IF TruthyString(error.resourceId)
                THEN "resourceId" :> error.resourceId ELSE EmptyObject)
            @@ ("errorType" :> error.errorType)
            @@ ("suggestions" :> getSuggestions(error))
      [] error.name = <<"A","u","t","h","e","n","t","i","c","a","t","i","o","n","E","r","r","o","r">> ->
            CustomErrorToJSON(error, NODE_ENV)
            @@ ("reason" :> error.reason)
            @@ ("errorType" :> error.errorType)
            @@ ("hints" :> getHints(error))
      [] error.name = <<"A","u","t","h","o","r","i","z","a","t","i","o","n","E","r","r","o","r">> ->
            CustomErrorToJSON(error, NODE_ENV)
            @@ (IF TruthyString(error.requiredPermission)
                THEN "requiredPermission" :> error.requiredPermission ELSE EmptyObject)
            @@ ("errorType" :> error.errorType)
            @@ ("solutions" :> getSolutions(error))
      [] OTHER -> CustomErrorToJSON(error, NODE_ENV)


\* a cleanupOldRecords that prunes the last hour only
cleanupOldRecordsHourOnly(metrics, now) ==
    LET InLastHour(record) == record.timestamp > now - 60
    IN  [metrics EXCEPT !.errorsByTimeRange.lastHour = SelectSeq(@, InLastHour)]

\* cleanupOldRecords at the instant now (in minutes): each window keeps the
\* records that are newer than its length
cleanupOldRecords(metrics, now) ==
    LET InLastHour(record) == record.timestamp > now - 60
        InLastDay(record) == record.timestamp > now - 24 * 60
        InLastWeek(record) == record.timestamp > now - 7 * 24 * 60
    IN  [metrics EXCEPT !.errorsByTimeRange =
            [lastHour |-> SelectSeq(@.lastHour, InLastHour),
             lastDay |-> SelectSeq(@.lastDay, InLastDay),
             lastWeek |-> SelectSeq(@.lastWeek, InLastWeek)]]

\* a recordError that does not count by endpoint
recordErrorNoEndpoint(metrics, error, req, now) ==
    LET Counted(counts, key) ==
            (key :> (IF Has(counts, key) THEN counts[key] ELSE 0) + 1) @@ counts
        Pushed(errorRecord) ==
            cleanupOldRecords(
                [totalErrors |-> metrics.totalErrors + 1,
                 errorsByType |-> Counted(metrics.errorsByType, errorRecord.type),
                 errorsByStatusCode |->
                     Counted(metrics.errorsByStatusCode, errorRecord.statusCode),
                 errorsByEndpoint |-> metrics.errorsByEndpoint,
                 errorsByTimeRange |->
                     [lastHour |-> Append(metrics.errorsByTimeRange.lastHour, errorRecord),
                      lastDay |-> Append(metrics.errorsByTimeRange.lastDay, errorRecord),
                      lastWeek |-> Append(metrics.errorsByTimeRange.lastWeek, errorRecord)]],
                now)
    IN  Pushed([timestamp |-> now,
                type |-> error.name,
                statusCode |-> IF error.statusCode # 0 THEN error.statusCode ELSE 500,
                message |-> error.message,
                endpoint |-> IF req # EmptyObject THEN req.method \o <<" ">> \o req.originalUrl
                             ELSE <<"u","n","k","n","o","w","n">>,
                requestId |-> IF req # EmptyObject THEN req.id ELSE <<"u","n","k","n","o","w","n">>])

\* ErrorMetrics.recordError(error, req) at the instant now, on the metrics
\* of errorMetrics: the metrics it leaves.  A req of null is EmptyObject; of
\* the record the model keeps timestamp, type, statusCode, message, endpoint
\* and requestId.
recordError(metrics, error, req, now) ==
    LET Counted(counts, key) ==
            (key :> (IF Has(counts, key) THEN counts[key] ELSE 0) + 1) @@ counts
        Pushed(errorRecord) ==
            cleanupOldRecords(
                [totalErrors |-> metrics.totalErrors + 1,
                 errorsByType |-> Counted(metrics.errorsByType, errorRecord.type),
                 errorsByStatusCode |->
                     Counted(metrics.errorsByStatusCode, errorRecord.statusCode),
                 errorsByEndpoint |-> Counted(metrics.errorsByEndpoint, errorRecord.endpoint),
                 errorsByTimeRange |->
                     [lastHour |-> Append(metrics.errorsByTimeRange.lastHour, errorRecord),
                      lastDay |-> Append(metrics.errorsByTimeRange.lastDay, errorRecord),
                      lastWeek |-> Append(metrics.errorsByTimeRange.lastWeek, errorRecord)]],
                now)
    IN  Pushed([timestamp |-> now,
                type |-> error.name,
                statusCode |-> IF error.statusCode # 0 THEN error.statusCode ELSE 500,
                message |-> error.message,
                endpoint |-> IF req # EmptyObject THEN req.method \o <<" ">> \o req.originalUrl
                             ELSE <<"u","n","k","n","o","w","n">>,
                requestId |-> IF req # EmptyObject THEN req.id ELSE <<"u","n","k","n","o","w","n">>])

\* ErrorMetrics.getErrorRate(timeRange = 'lastHour'), args being the
\* arguments of the call: errors.length / minutes, kept as the two numbers
getErrorRate(metrics, args) ==
    LET Rate(timeRange) ==
            CASE timeRange = <<"l","a","s","t","H","o","u","r">> ->
                    [errors |-> Len(metrics.errorsByTimeRange.lastHour), minutes |-> 60]
              [] timeRange = <<"l","a","s","t","D","a","y">> ->
                    [errors |-> Len(metrics.errorsByTimeRange.lastDay), minutes |-> 1440]
              [] timeRange = <<"l","a","s","t","W","e","e","k">> ->
                    [errors |-> Len(metrics.errorsByTimeRange.lastWeek), minutes |-> 10080]
              [] OTHER -> [errors |-> 0, minutes |-> 60]
    IN  Rate(IF Len(args) >= 1 THEN args[1] ELSE <<"l","a","s","t","H","o","u","r">>)

\* ErrorMetrics.isErrorRateHigh(threshold = 1.0, timeRange = 'lastHour'),
\* args being the arguments of the call: getErrorRate(timeRange) > threshold
isErrorRateHigh(metrics, args) ==
    LET Above(rate, threshold) == rate.errors > threshold * rate.minutes
    IN  Above(getErrorRate(metrics, IF Len(args) >= 2 THEN <<args[2]>> ELSE <<<<"l","a","s","t","H","o","u","r">>>>),
              IF Len(args) >= 1 THEN args[1] ELSE 1)

\* globalErrorHandler(err, req, res, next) with process.env.NODE_ENV and the
\* state of errorMetrics: the response it sends and the metrics it leaves;
\* warn tells whether the high rate warning is logged
globalErrorHandler(err, req, NODE_ENV, metrics, now) ==
    LET \* ErrorUtils.sanitizeForProduction, on a CustomError
        sanitizeForProduction(error, mode) ==
            LET Sanitized(json) == [k \in DOMAIN json \ {"stack", "name"} |-> json[k]]
            IN  Sanitized(toJSON(error, mode))
    IN
    LET \* getCurrentConfig
        getCurrentConfig(mode) ==
            LET Lookup(env) ==
                    IF env \in {<<"d","e","v","e","l","o","p","m","e","n","t">>, <<"p","r","o","d","u","c","t","i","o","n">>, <<"t","e","s","t">>} THEN errorConfig(env)
                    ELSE errorConfig(<<"d","e","v","e","l","o","p","m","e","n","t">>)
            IN  Lookup(IF mode = Unset \/ mode = <<>> THEN <<"d","e","v","e","l","o","p","m","e","n","t">> ELSE mode)
    IN
    LET \* ErrorUtils.isOperational
        isOperational(error) == InstanceOfCustomError(error) /\ error.isOperational
    IN
    LET \* ErrorUtils.getSeverity, on a CustomError
        getSeverity(error) ==
            IF error.statusCode >= 500 THEN <<"h","i","g","h">>
            ELSE IF error.statusCode >= 400 THEN <<"m","e","d","i","u","m">>
            ELSE <<"l","o","w">>
    IN
    LET Handle(customError, config) ==
            LET Context(errorResponse) ==
                    ("requestId" :> (IF TruthyString(req.id) THEN req.id ELSE <<"r","e","q","_","g","e","n","e","r","a","t","e","d">>))
                    @@ ("path" :> req.originalUrl)
                    @@ ("method" :> req.method)
                    @@ errorResponse
                Debug(errorResponse) ==
                    IF config.includeErrorDetails
                    THEN ("debug" :>
                            ([severity |-> getSeverity(customError),
                              operational |-> isOperational(customError)]
                             @@ (IF Has(req, "user")
                                 THEN "user" :> [role |-> req["user"].role,
                                                 apiKey |-> req["user"].apiKey]
                                 ELSE EmptyObject)))
                         @@ errorResponse
                    ELSE errorResponse
                Message(sanitized) ==
                    IF Has(config, "genericMessages") /\ customError.statusCode >= 500
                    THEN ("message" :>
                            (IF Has(config["genericMessages"], customError.statusCode)
                             THEN config["genericMessages"][customError.statusCode]
                             ELSE config["genericMessages"][500]))
                         @@ sanitized
                    ELSE sanitized
                Recorded(after) ==
                    [response |->
                        JsonResponse(customError.statusCode,
                            Debug(Context(
                                IF NODE_ENV = <<"p","r","o","d","u","c","t","i","o","n">>
                                THEN Message(sanitizeForProduction(customError, NODE_ENV))
                                ELSE toJSON(customError, NODE_ENV)))),
                     metrics |-> after,
                     warn |-> isErrorRateHigh(after, <<2>>)]
            IN  Recorded(recordError(metrics, customError, req, now))
    IN  Handle(fromNativeError(err), getCurrentConfig(NODE_ENV))

\* healthCheckMiddleware on /health and /api/health: its errors block
healthCheckMiddleware(metrics) ==
    [status |-> 200,
     body |-> [status |-> <<"h","e","a","l","t","h","y">>,
               errors |-> [total |-> metrics.totalErrors,
                           lastHour |-> Len(metrics.errorsByTimeRange.lastHour),
                           highErrorRate |-> isErrorRateHigh(metrics, <<2>>)]]]


(***************************************************************************)
(* The error boundary, one call per behaviour.                             *)
(***************************************************************************)
\* the values of process.env.NODE_ENV
Modes == {<<"p","r","o","d","u","c","t","i","o","n">>, <<"d","e","v","e","l","o","p","m","e","n","t">>, <<"t","e","s","t">>, <<"s","t","a","g","i","n","g">>, Unset}

\* errors that reach the boundary: the errors of the taxonomy that the
\* middleware and the handlers raise, and errors from elsewhere
TaxonomyErrors ==
    { ValidationError(<<"I","n","v","a","l","i","d"," ","q","u","e","r","y"," ","p","a","r","a","m","e","t","e","r","s">>, <<<<"P","a","g","e"," ","m","u","s","t"," ","b","e"," ","a"," ","p","o","s","i","t","i","v","e"," ","i","n","t","e","g","e","r">>>>,
                      <<"q","u","e","r","y">>),
      ValidationError(<<"V","a","l","i","d","a","t","i","o","n"," ","f","a","i","l","e","d">>, <<>>, Null),
      NotFoundError(<<"P","r","o","d","u","c","t">>, <<"9","9">>),
      NotFoundError(<<"R","o","u","t","e">>, <<"G","E","T"," ","/","n","o","w","h","e","r","e">>),
      AuthenticationError(<<"A","P","I"," ","k","e","y"," ","i","s"," ","r","e","q","u","i","r","e","d","."," ","P","l","e","a","s","e"," ","p","r","o","v","i","d","e"," ","X","-","A","P","I","-","K","e","y"," ","h","e","a","d","e","r",".">>,
                          <<"M","I","S","S","I","N","G","_","A","P","I","_","K","E","Y">>),
      AuthenticationError(<<"I","n","v","a","l","i","d"," ","A","P","I"," ","k","e","y"," ","p","r","o","v","i","d","e","d",".">>, <<"I","N","V","A","L","I","D","_","A","P","I","_","K","E","Y">>),
      AuthorizationError(<<"A","c","c","e","s","s"," ","d","e","n","i","e","d","."," ","R","e","q","u","i","r","e","d"," ","p","e","r","m","i","s","s","i","o","n",":"," ","d","e","l","e","t","e">>, <<"d","e","l","e","t","e">>),
      CustomError(<<"D","a","t","a","b","a","s","e"," ","c","o","n","n","e","c","t","i","o","n"," ","l","o","s","t">>, 500, <<"I","N","T","E","R","N","A","L","_","E","R","R","O","R">>),
      CustomError(<<"U","p","s","t","r","e","a","m"," ","u","n","a","v","a","i","l","a","b","l","e">>, 503, <<"U","P","S","T","R","E","A","M","_","D","O","W","N">>) }

ForeignErrors ==
    { NativeError(<<"T","y","p","e","E","r","r","o","r">>, <<"C","a","n","n","o","t"," ","r","e","a","d"," ","p","r","o","p","e","r","t","i","e","s"," ","o","f"," ","u","n","d","e","f","i","n","e","d">>, EmptyObject),
      NativeError(<<"E","r","r","o","r">>, <<>>, EmptyObject),
      NativeError(<<"V","a","l","i","d","a","t","i","o","n","E","r","r","o","r">>, <<"p","r","i","c","e"," ","i","s"," ","r","e","q","u","i","r","e","d">>, EmptyObject),
      NativeError(<<"C","a","s","t","E","r","r","o","r">>, <<"C","a","s","t"," ","t","o"," ","O","b","j","e","c","t","I","d"," ","f","a","i","l","e","d">>, EmptyObject),
      NativeError(<<"S","y","n","t","a","x","E","r","r","o","r">>, <<"U","n","e","x","p","e","c","t","e","d"," ","t","o","k","e","n"," ","}"," ","i","n"," ","J","S","O","N"," ","a","t"," ","p","o","s","i","t","i","o","n"," ","9">>,
                  ("statusCode" :> 400)),
      NativeError(<<"S","y","n","t","a","x","E","r","r","o","r">>, <<"U","n","e","x","p","e","c","t","e","d"," ","i","d","e","n","t","i","f","i","e","r">>, EmptyObject),
      NativeError(<<"P","a","y","l","o","a","d","T","o","o","L","a","r","g","e","E","r","r","o","r">>, <<"r","e","q","u","e","s","t"," ","e","n","t","i","t","y"," ","t","o","o"," ","l","a","r","g","e">>,
                  ("statusCode" :> 413)),
      NativeError(<<"E","r","r","o","r">>, <<"c","o","n","n","e","c","t"," ","E","C","O","N","N","R","E","F","U","S","E","D">>, ("code" :> <<"E","C","O","N","N","R","E","F","U","S","E","D">>)) }

\* the requests in which they are raised
ErrorRequests ==
    { [id |-> <<"r","e","q","-","1">>, originalUrl |-> <<"/","a","p","i","/","p","r","o","d","u","c","t","s","/","9","9">>, method |-> <<"G","E","T">>],
      [id |-> Null, originalUrl |-> <<"/","a","p","i","/","p","r","o","d","u","c","t","s">>, method |-> <<"P","O","S","T">>],
      [id |-> <<"r","e","q","-","2">>, originalUrl |-> <<"/","a","p","i","/","p","r","o","d","u","c","t","s","/","1">>, method |-> <<"D","E","L","E","T","E">>,
       user |-> authenticateApiKey(DevKey).value],
      [id |-> <<"r","e","q","-","3">>, originalUrl |-> <<"/","a","p","i","/","p","r","o","d","u","c","t","s">>, method |-> <<"G","E","T">>,
       user |-> authenticateApiKey(AdminKey).value] }


\* instants, in minutes, at which the error boundary is reached
HandlingInstants == {2000, 2060}

\* states of errorMetrics that earlier errors leave: none; three old errors
\* and two of the last hour; bursts of 61, 90, 120 and 121 errors in one
\* minute
\* states of errorMetrics that earlier errors leave: none; three old errors
\* and two of the last hour; bursts of 90, 120 and 121 errors on one
\* endpoint in one minute
MetricsStates ==
    LET notFound == NotFoundError(<<"P","r","o","d","u","c","t">>, <<"9","9">>)
        invalid == ValidationError(<<"I","n","v","a","l","i","d"," ","p","r","o","d","u","c","t"," ","d","a","t","a">>, <<<<"N","a","m","e"," ","i","s"," ","r","e","q","u","i","r","e","d">>>>, Null)
        get == [id |-> <<"r","e","q","-","0">>, originalUrl |-> <<"/","a","p","i","/","p","r","o","d","u","c","t","s","/","9","9">>, method |-> <<"G","E","T">>]
        post == [id |-> <<"r","e","q","-","0">>, originalUrl |-> <<"/","a","p","i","/","p","r","o","d","u","c","t","s">>, method |-> <<"P","O","S","T">>]
        Thrice(metrics, error, req, now) ==
            recordError(recordError(recordError(metrics, error, req, now), error, req, now),
                        error, req, now)
        Twice(metrics, error, req, now) ==
            recordError(recordError(metrics, error, req, now), error, req, now)
        \* what n calls of recordError in the minute 2000 leave
        Burst(n, last) ==
            [totalErrors |-> n,
             errorsByType |-> (last.type :> n),
             errorsByStatusCode |-> (last.statusCode :> n),
             errorsByEndpoint |-> (last.endpoint :> n),
             errorsByTimeRange |-> [lastHour |-> [i \in 1..n |-> last],
                                    lastDay |-> [i \in 1..n |-> last],
                                    lastWeek |-> [i \in 1..n |-> last]]]
        Last(metrics) == metrics.errorsByTimeRange.lastHour[1]
    IN  { ErrorMetrics,
          Twice(Thrice(ErrorMetrics, invalid, post, 0), notFound, get, 1990) }
        \cup {Burst(n, Last(recordError(ErrorMetrics, notFound, get, 2000))) :
                 n \in {90, 120, 121}}

\* a boundary that sheds every request while the error rate is high
errorBoundaryShedding(out, req, NODE_ENV, metrics, now) ==
    IF isErrorRateHigh(metrics, <<2>>)
    THEN [response |-> JsonResponse(503, [success |-> FALSE]), metrics |-> metrics,
          warn |-> TRUE]
    ELSE IF out.response.status >= 400
    THEN globalErrorHandler(out.response.body, req, NODE_ENV, metrics, now)
    ELSE [response |-> out.response, metrics |-> metrics, warn |-> FALSE]

\* app.use(globalErrorHandler) behind the routes: the outcome of a route is
\* sent as it is, or its error goes through the error handler
errorBoundary(out, req, NODE_ENV, metrics, now) ==
    IF out.response.status >= 400
    THEN globalErrorHandler(out.response.body, req, NODE_ENV, metrics, now)
    ELSE [response |-> out.response, metrics |-> metrics, warn |-> FALSE]

CallProductRequest ==
    LET \* the product requests that are served in front of the boundary, on the
        \* seed collection: the context of each and the outcome of its route
        ProductRequests ==
            LET \* req as the error handler sees it: the user is there when the key
                \* is valid
                RequestContext(method, originalUrl, apiKey) ==
                    [id |-> <<"r","e","q","-","1">>, originalUrl |-> originalUrl, method |-> method]
                    @@ (IF authenticateApiKey(apiKey).ok
                        THEN "user" :> authenticateApiKey(apiKey).value ELSE EmptyObject)
            IN
            { [req |-> RequestContext(<<"G","E","T">>, <<"/","a","p","i","/","p","r","o","d","u","c","t","s","/">> \o id, apiKey),
               out |-> GetProductByIdRoute(SeedProducts, apiKey, id)] :
                 apiKey \in ApiKeys, id \in {<<"1">>, <<"9","9">>, <<"n","o","t","-","a","-","u","u","i","d">>, Uuids[1]} }
            \cup
            { [req |-> RequestContext(<<"G","E","T">>, <<"/","a","p","i","/","p","r","o","d","u","c","t","s">>, DevKey),
               out |-> GetProductsRoute(SeedProducts, DevKey, query)] : query \in ListQueries }
            \cup
            { [req |-> RequestContext(<<"D","E","L","E","T","E">>, <<"/","a","p","i","/","p","r","o","d","u","c","t","s","/">> \o id, apiKey),
               out |-> DeleteProductRoute(SeedProducts, apiKey, id)] :
                 apiKey \in ApiKeys, id \in {<<"1">>, Uuids[2]} }
    IN
    /\ call = NoCall
    /\ \E r \in ProductRequests, NODE_ENV \in Modes, metrics \in MetricsStates,
          now \in HandlingInstants :
          call' = [fn |-> "request", req |-> r.req, out |-> r.out,
                   NODE_ENV |-> NODE_ENV, metrics |-> metrics, now |-> now,
                   result |-> errorBoundary(r.out, r.req, NODE_ENV, metrics, now)]
    /\ UNCHANGED server

CallFromNativeError ==
    /\ call = NoCall
    /\ \E error \in TaxonomyErrors \cup ForeignErrors :
          call' = [fn |-> "fromNativeError", error |-> error,
                   result |-> fromNativeError(error)]
    /\ UNCHANGED server

CallGlobalErrorHandler ==
    /\ call = NoCall
    /\ \E err \in TaxonomyErrors \cup ForeignErrors, req \in ErrorRequests, NODE_ENV \in Modes,
          metrics \in MetricsStates, now \in HandlingInstants :
          call' = [fn |-> "globalErrorHandler", err |-> err, req |-> req,
                   NODE_ENV |-> NODE_ENV, metrics |-> metrics, now |-> now,
                   result |-> globalErrorHandler(err, req, NODE_ENV, metrics, now)]
    /\ UNCHANGED server

CallHealthCheck ==
    /\ call = NoCall
    /\ \E metrics \in MetricsStates :
          call' = [fn |-> "healthCheckMiddleware", metrics |-> metrics,
                   result |-> healthCheckMiddleware(metrics)]
    /\ UNCHANGED server

CallGetErrorRate ==
    /\ call = NoCall
    /\ \E metrics \in MetricsStates,
          args \in {<<>>, <<<<"l","a","s","t","H","o","u","r">>>>, <<<<"l","a","s","t","D","a","y">>>>, <<<<"l","a","s","t","W","e","e","k">>>>, <<<<"l","a","s","t","M","o","n","t","h">>>>} :
          call' = [fn |-> "getErrorRate", metrics |-> metrics, args |-> args,
                   result |-> getErrorRate(metrics, args)]
    /\ UNCHANGED server

CallIsErrorRateHigh ==
    /\ call = NoCall
    /\ \E metrics \in MetricsStates, args \in {<<>>, <<1>>, <<2>>, <<2, <<"l","a","s","t","D","a","y">>>>} :
          call' = [fn |-> "isErrorRateHigh", metrics |-> metrics, args |-> args,
                   result |-> isErrorRateHigh(metrics, args)]
    /\ UNCHANGED server

NextErr ==
    \/ CallFromNativeError
    \/ CallGlobalErrorHandler
    \/ CallProductRequest
    \/ CallHealthCheck
    \/ CallGetErrorRate
    \/ CallIsErrorRateHigh

SpecErr == Init /\ [][NextErr]_vars



(***************************************************************************)
(* Properties of the error boundary, checked under SpecErr.                *)
(***************************************************************************)
\* the status and the code of each kind of error of the taxonomy
KindStatus(name) ==
    CASE name = <<"V","a","l","i","d","a","t","i","o","n","E","r","r","o","r">> -> 400
      [] name = <<"A","u","t","h","e","n","t","i","c","a","t","i","o","n","E","r","r","o","r">> -> 401
      [] name = <<"A","u","t","h","o","r","i","z","a","t","i","o","n","E","r","r","o","r">> -> 403
      [] name = <<"N","o","t","F","o","u","n","d","E","r","r","o","r">> -> 404
      [] OTHER -> 500

KindCode(name) ==
    CASE name = <<"V","a","l","i","d","a","t","i","o","n","E","r","r","o","r">> -> <<"V","A","L","I","D","A","T","I","O","N","_","E","R","R","O","R">>
      [] name = <<"A","u","t","h","e","n","t","i","c","a","t","i","o","n","E","r","r","o","r">> -> <<"A","U","T","H","E","N","T","I","C","A","T","I","O","N","_","E","R","R","O","R">>
      [] name = <<"A","u","t","h","o","r","i","z","a","t","i","o","n","E","r","r","o","r">> -> <<"A","U","T","H","O","R","I","Z","A","T","I","O","N","_","E","R","R","O","R">>
      [] name = <<"N","o","t","F","o","u","n","d","E","r","r","o","r">> -> <<"R","E","S","O","U","R","C","E","_","N","O","T","_","F","O","U","N","D">>
      [] OTHER -> <<"I","N","T","E","R","N","A","L","_","E","R","R","O","R">>

\* a foreign error that names neither a status nor a code of its own
Plain(err) ==
    /\ ~InstanceOfCustomError(err)
    /\ ~Has(err, "statusCode")
    /\ ~Has(err, "code")

\* C11: every failure response carries the status and the code of its kind
\* of error (Validation 400 VALIDATION_ERROR, Authentication 401
\* AUTHENTICATION_ERROR, Authorization 403 AUTHORIZATION_ERROR, NotFound 404
\* RESOURCE_NOT_FOUND, a generic error 500 INTERNAL_ERROR unless it was
\* given others), and the HTTP status of the response equals the statusCode
\* of the rendered error.
C11_StatusOfKind ==
    call.fn = "globalErrorHandler" =>
        LET Holds(customError, sent) ==
                /\ sent.status = sent.body.statusCode
                /\ sent.status = customError.statusCode
                /\ sent.body.error = customError.errorCode
                /\ customError.name # <<"C","u","s","t","o","m","E","r","r","o","r">> =>
                      /\ sent.status = KindStatus(customError.name)
                      /\ sent.body.error = KindCode(customError.name)
                /\ customError.name = <<"C","u","s","t","o","m","E","r","r","o","r">> /\ Plain(call.err) =>
                      /\ sent.status = 500
                      /\ sent.body.error = <<"I","N","T","E","R","N","A","L","_","E","R","R","O","R">>
        IN  Holds(fromNativeError(call.err), call.result.response)

\* C11 witness: a foreign ValidationError is answered 400 VALIDATION_ERROR
\* in production
C11_Witness ==
    /\ call.fn = "globalErrorHandler"
    /\ ~InstanceOfCustomError(call.err)
    /\ call.err.name = <<"V","a","l","i","d","a","t","i","o","n","E","r","r","o","r">>
    /\ call.NODE_ENV = <<"p","r","o","d","u","c","t","i","o","n">>
    /\ call.result.response.status = 400
    /\ call.result.response.body.statusCode = 400
    /\ call.result.response.body.error = <<"V","A","L","I","D","A","T","I","O","N","_","E","R","R","O","R">>


\* C12: outside development mode (production, test, unset or any other
\* mode) a rendered failure carries no stack trace and no internal
\* diagnostic fields (the error name, the debug block with severity,
\* operational flag and the user's API key), and a failure with status 500
\* or more has its message replaced by the fixed generic message.
C12_NoDiagnosticsOutsideDevelopment ==
    call.fn = "globalErrorHandler" /\ call.NODE_ENV # <<"d","e","v","e","l","o","p","m","e","n","t">> =>
        LET Clean(body, generic) ==
                /\ ~Has(body, "stack")
                /\ ~Has(body, "name")
                /\ ~Has(body, "debug")
                /\ call.result.response.status >= 500 =>
                      body.message = (IF Has(generic, call.result.response.status)
                                      THEN generic[call.result.response.status]
                                      ELSE generic[500])
        IN  Clean(call.result.response.body,
                  errorConfig(<<"p","r","o","d","u","c","t","i","o","n">>)["genericMessages"])

\* C12 failing case: in test mode a 500 error raised for an authenticated
\* request is answered with its own message and with a debug block that
\* holds the caller's API key
C12_TestModeLeaks ==
    /\ call.fn = "globalErrorHandler"
    /\ call.NODE_ENV = <<"t","e","s","t">>
    /\ call.err = CustomError(<<"D","a","t","a","b","a","s","e"," ","c","o","n","n","e","c","t","i","o","n"," ","l","o","s","t">>, 500, <<"I","N","T","E","R","N","A","L","_","E","R","R","O","R">>)
    /\ Has(call.req, "user")
    /\ call.result.response.status = 500
    /\ call.result.response.body.message = <<"D","a","t","a","b","a","s","e"," ","c","o","n","n","e","c","t","i","o","n"," ","l","o","s","t">>
    /\ Has(call.result.response.body, "debug")
    /\ call.result.response.body["debug"]["user"].apiKey = DevKey
    /\ call.result.response.body["debug"].severity = <<"h","i","g","h">>


\* whether a foreign error is one that becomes a Validation error
BecomesValidation(error) ==
    \/ error.name \in {<<"V","a","l","i","d","a","t","i","o","n","E","r","r","o","r">>, <<"C","a","s","t","E","r","r","o","r">>}
    \/ error.name = <<"S","y","n","t","a","x","E","r","r","o","r">> /\ Includes(error.message, <<"J","S","O","N">>)

\* C13: fromNativeError returns an error of the taxonomy unchanged, turns a
\* foreign ValidationError, CastError or JSON SyntaxError into a Validation
\* error (400), and wraps every other foreign error as a generic error with
\* the foreign status and code when it has them, 500 and INTERNAL_ERROR
\* otherwise; the error handler renders the converted error, never the
\* foreign one.
C13_ForeignErrorsWrapped ==
    /\ call.fn = "fromNativeError" =>
          LET Converted(error, result) ==
                  /\ InstanceOfCustomError(result)
                  /\ InstanceOfCustomError(error) => result = error
                  /\ ~InstanceOfCustomError(error) /\ BecomesValidation(error) =>
                        /\ result.name = <<"V","a","l","i","d","a","t","i","o","n","E","r","r","o","r">>
                        /\ result.statusCode = 400
                        /\ result.errorCode = <<"V","A","L","I","D","A","T","I","O","N","_","E","R","R","O","R">>
                        /\ Len(result.details) = 1
                  /\ ~InstanceOfCustomError(error) /\ ~BecomesValidation(error) =>
                        /\ result.name = <<"C","u","s","t","o","m","E","r","r","o","r">>
                        /\ result.statusCode =
                              (IF Has(error, "statusCode") THEN error["statusCode"] ELSE 500)
                        /\ result.errorCode =
                              (IF Has(error, "code") THEN error["code"]
                               ELSE <<"I","N","T","E","R","N","A","L","_","E","R","R","O","R">>)
          IN  Converted(call.error, call.result)
    /\ call.fn = "globalErrorHandler" =>
          LET Rendered(customError, sent) ==
                  /\ InstanceOfCustomError(customError)
                  /\ sent.body.success = FALSE
                  /\ sent.body.error = customError.errorCode
                  /\ sent.status = customError.statusCode
                  /\ ~Has(sent.body, "native")
                  /\ ~InstanceOfCustomError(call.err) /\ BecomesValidation(call.err) =>
                        sent.status = 400
          IN  Rendered(fromNativeError(call.err), call.result.response)

\* C13 witness: a CastError has become a Validation error
C13_Witness ==
    /\ call.fn = "fromNativeError"
    /\ ~InstanceOfCustomError(call.error)
    /\ call.error.name = <<"C","a","s","t","E","r","r","o","r">>
    /\ call.result.name = <<"V","a","l","i","d","a","t","i","o","n","E","r","r","o","r">>
    /\ call.result.statusCode = 400
    /\ call.result.message = <<"I","n","v","a","l","i","d"," ","d","a","t","a"," ","f","o","r","m","a","t">>


\* a listing or search request of an authenticated caller
QueryRequest ==
    /\ request.method = "GET"
    /\ request.route \in {"/api/products", "/api/products/search"}
    /\ authenticateApiKey(request.apiKey).ok

\* the reason of the first parser of QueryProcessor that fails on a query,
\* in the order in which validateProductQuery calls them; <<>> when none
ParsingFailure(query) ==
    LET First(pagination, filters, search, sort) ==
            IF ~pagination.ok THEN pagination.message
            ELSE IF ~filters.ok THEN filters.message
            ELSE IF ~search.ok THEN search.message
            ELSE IF ~sort.ok THEN sort.message
            ELSE <<>>
    IN  First(parsePagination(query), parseFilters(query), parseSearch(query),
              parseSorting(query))

\* C14, as stated: a parsing failure of QueryProcessor reaches the caller as
\* a Validation error (400) whose field names the offending query parameter
\* and whose details hold the reason.
C14_FieldNamesParameter ==
    QueryRequest /\ ParsingFailure(request.query) # <<>> =>
        /\ response.status = 400
        /\ response.body.name = <<"V","a","l","i","d","a","t","i","o","n","E","r","r","o","r">>
        /\ response.body.field \in {KeyChars(k) : k \in DOMAIN request.query}
        /\ \E i \in 1..Len(response.body.details) :
              response.body.details[i] = ParsingFailure(request.query)

\* C14, amended: a parsing failure of QueryProcessor reaches the caller as a
\* Validation error (400, VALIDATION_ERROR) whose field is 'query' whatever
\* the parameter, whose message is 'Query validation error: ' and the
\* reason, and whose details hold the reason and nothing else.
C14_FieldIsQuery ==
    QueryRequest /\ ParsingFailure(request.query) # <<>> =>
        /\ response.status = 400
        /\ response.body.name = <<"V","a","l","i","d","a","t","i","o","n","E","r","r","o","r">>
        /\ response.body.errorCode = <<"V","A","L","I","D","A","T","I","O","N","_","E","R","R","O","R">>
        /\ response.body.field = <<"q","u","e","r","y">>
        /\ response.body.message =
              <<"Q","u","e","r","y"," ","v","a","l","i","d","a","t","i","o","n"," ","e","r","r","o","r",":"," ">> \o ParsingFailure(request.query)
        /\ response.body.details = <<ParsingFailure(request.query)>>

\* C14 witness: page=-1 is answered 400 with field 'query'
C14_Witness ==
    /\ QueryRequest
    /\ request.query = ("page" :> <<"-","1">>)
    /\ response.status = 400
    /\ response.body.field = <<"q","u","e","r","y">>
    /\ response.body.details = <<<<"P","a","g","e"," ","n","u","m","b","e","r"," ","m","u","s","t"," ","b","e"," ","g","r","e","a","t","e","r"," ","t","h","a","n"," ","0">>>>



(***************************************************************************)
(* Properties of the parsers' failures, checked under SpecQP.              *)
(***************************************************************************)
\* C15: parseFilters case-folds every category value that is supplied; when
\* a folded value is outside the enumeration it fails with a message that
\* names exactly the offending values and lists the allowed ones; when all
\* are inside, the category of the FilterSet is the folded values.
C15_CategoryChecked ==
    call.fn = "parseFilters" /\ Has(call.query, "category") =>
        LET Outside(cat) == ~Contains(validCategories, cat)
            Checked(folded, r) ==
                /\ SelectSeq(folded, Outside) # <<>> =>
                      /\ ~r.ok
                      /\ r.message = <<"I","n","v","a","l","i","d"," ","c","a","t","e","g","o","r","i","e","s",":"," ">>
                                     \o JoinComma(SelectSeq(folded, Outside))
                                     \o <<"."," ","V","a","l","i","d"," ","c","a","t","e","g","o","r","i","e","s",":"," ">>
                                     \o JoinComma(validCategories)
                /\ r.ok => Has(r.value, "category") /\ r.value["category"] = folded
        IN  Checked([i \in 1..Len(call.query["category"].items) |->
                        ToLowerCase(call.query["category"].items[i])],
                    call.result)

\* C15 failing case: the empty category is outside the enumeration and the
\* call returns a FilterSet without category
C15_EmptyCategoryAccepted ==
    /\ call.fn = "parseFilters"
    /\ call.query = ("category" :> One(<<>>))
    /\ call.result.ok
    /\ ~Has(call.result.value, "category")


\* a string that is a number and not negative: digits, then optionally a
\* point and digits
NonNegativeNumber(s) ==
    /\ s # <<>>
    /\ \E n \in 1..Len(s) :
          /\ \A i \in 1..n : IsDigit(s[i])
          /\ n = Len(s) \/ (s[n + 1] = "." /\ n + 1 < Len(s)
                            /\ \A i \in (n + 2)..Len(s) : IsDigit(s[i]))

\* C16: parseFilters fails whenever a supplied minPrice or maxPrice is not a
\* non-negative number, and whenever both are supplied with minPrice greater
\* than maxPrice; every FilterSet it returns has bounds that are at least 0
\* and, when both are there, min <= max.
C16_PriceBoundsChecked ==
    call.fn = "parseFilters" =>
        LET Bad(q, k) == Has(q, k) /\ ~NonNegativeNumber(q[k])
            Crossed(q) ==
                /\ Has(q, "minPrice") /\ NonNegativeNumber(q["minPrice"])
                /\ Has(q, "maxPrice") /\ NonNegativeNumber(q["maxPrice"])
                /\ ParseFloat(q["minPrice"]).v > ParseFloat(q["maxPrice"]).v
            Bounded(price) ==
                /\ Has(price, "min") => price["min"] >= 0
                /\ Has(price, "max") => price["max"] >= 0
                /\ Has(price, "min") /\ Has(price, "max") => price["min"] <= price["max"]
        IN  /\ Bad(call.query, "minPrice") \/ Bad(call.query, "maxPrice")
                  \/ Crossed(call.query)
               => ~call.result.ok
            /\ call.result.ok /\ Has(call.result.value, "price") =>
                  Bounded(call.result.value["price"])

\* C16 failing case: minPrice 10 with maxPrice 0 is accepted, and the
\* FilterSet has min above max
C16_CrossedBoundsAccepted ==
    /\ call.fn = "parseFilters"
    /\ call.query = ("minPrice" :> <<"1","0">>) @@ ("maxPrice" :> <<"0">>)
    /\ call.result.ok
    /\ call.result.value["price"]["min"] = 1000
    /\ call.result.value["price"]["max"] = 0


\* C17: parseSearch fails for every supplied term (q, or search) whose
\* trimmed length is below 2 or above 100, the empty string and a term of
\* white space included; a term it accepts is returned trimmed and in lower
\* case with a length from 2 to 100, and the fields are name and description
\* unless the query gives them.
C17_TermLengthChecked ==
    call.fn = "parseSearch" /\ (Has(call.query, "q") \/ Has(call.query, "search")) =>
        LET Checked(term, r) ==
                /\ Len(term) < 2 \/ Len(term) > 100 => ~r.ok
                /\ r.ok =>
                      /\ Has(r.value, "term")
                      /\ r.value["term"] = ToLowerCase(term)
                      /\ Len(r.value["term"]) >= 2 /\ Len(r.value["term"]) <= 100
                      /\ ~Has(call.query, "fields") =>
                            r.value["fields"] = <<<<"n","a","m","e">>, <<"d","e","s","c","r","i","p","t","i","o","n">>>>
        IN  Checked(Trim(IF Has(call.query, "q") THEN call.query["q"]
                         ELSE call.query["search"]),
                    call.result)

\* C17 failing case: the empty term is accepted, and no search is made
C17_EmptyTermAccepted ==
    /\ call.fn = "parseSearch"
    /\ call.query = ("q" :> <<>>)
    /\ call.result.ok
    /\ call.result.value = EmptyObject



(***************************************************************************)
(* Properties of the collection, checked under Spec.                       *)
(***************************************************************************)
\* no two products of a collection share an id
UniqueIds(store) ==
    \A i, j \in 1..Len(store) : i # j => store[i].id # store[j].id

\* C18: in every state no two products share an id, and an update that is
\* accepted leaves the id and the createdAt of the product it writes as
\* they were, whatever the body of the request holds; the other products
\* are not touched.
C18_IdsStable ==
    /\ []UniqueIds(products)
    /\ [][request'.method = "PUT" /\ response'.status = 200 =>
             /\ Len(products') = Len(products)
             /\ \E i \in 1..Len(products) :
                   /\ products[i].id = request'.id
                   /\ products'[i].id = products[i].id
                   /\ products'[i].createdAt = products[i].createdAt
                   /\ \A j \in 1..Len(products) : j # i => products'[j] = products[j]]_vars

\* C18 witness: an update whose body carried another id and another
\* creation time was accepted, and the product kept both
C18_Witness ==
    /\ request.method = "PUT"
    /\ response.status = 200
    /\ Has(request.body, "id") /\ request.body["id"] # request.id
    /\ Has(request.body, "createdAt")
    /\ response.body.data.id = request.id
    /\ response.body.data.createdAt # request.body["createdAt"]
    /\ response.body.data.description = request.body["description"]
    /\ \E i \in 1..Len(products) : products[i] = response.body.data


\* the key holds the permission: it is a valid key and the user
\* authenticateApiKey makes of it has the permission
Holds(apiKey, permission) ==
    /\ authenticateApiKey(apiKey).ok
    /\ Contains(authenticateApiKey(apiKey).value.permissions, permission)

\* every product of the collection before is in the collection after
NoneRemoved(before, after) ==
    \A i \in 1..Len(before) : \E j \in 1..Len(after) : after[j].id = before[i].id

\* C19: a product is removed only by a DELETE request whose key holds the
\* delete permission, which is the admin key; a request with another key, a
\* missing key or an invalid key removes nothing; a create or an update
\* changes the collection only when the key holds the write permission.
C19_WritesNeedPermission ==
    [][/\ ~NoneRemoved(products, products') =>
             /\ request'.method = "DELETE"
             /\ Holds(request'.apiKey, <<"d","e","l","e","t","e">>)
             /\ request'.apiKey = AdminKey
       /\ products' # products /\ NoneRemoved(products, products') =>
             /\ request'.method \in {"POST", "PUT"}
             /\ Holds(request'.apiKey, <<"w","r","i","t","e">>)]_vars

\* C19 witness: the admin key has deleted a product
C19_Witness ==
    /\ request.method = "DELETE"
    /\ request.apiKey = AdminKey
    /\ response.status = 200
    /\ Len(products) = Len(SeedProducts) - 1
    /\ \A i \in 1..Len(products) : products[i].id # request.id



(***************************************************************************)
(* Independence of the error metrics, checked under SpecErr.               *)
(***************************************************************************)
\* C20: the state of the error metrics does not influence how a request is
\* handled: a product request served in two runs that differ only in the
\* recorded metrics gets the same status and the same body (times and
\* request ids are not in the model); the health output is what differs.
C20_MetricsDoNotInfluence ==
    /\ call.fn = "request" =>
          \A metrics \in MetricsStates, now \in HandlingInstants :
              errorBoundary(call.out, call.req, call.NODE_ENV, metrics, now).response
              = call.result.response
    /\ call.fn = "globalErrorHandler" =>
          \A metrics \in MetricsStates, now \in HandlingInstants :
              globalErrorHandler(call.err, call.req, call.NODE_ENV, metrics, now).response
              = call.result.response
    /\ call.fn = "healthCheckMiddleware" =>
          \A metrics \in MetricsStates :
              metrics.totalErrors # call.metrics.totalErrors =>
                  healthCheckMiddleware(metrics) # call.result

\* C20 witness: a request that fails is served while the error rate is
\* high, the warning is logged, and the answer is the plain 404
C20_Witness ==
    /\ call.fn = "request"
    /\ isErrorRateHigh(call.metrics, <<2>>)
    /\ call.result.warn
    /\ call.result.metrics.totalErrors = call.metrics.totalErrors + 1
    /\ call.result.response.status = 404
    /\ call.result.response.body.error = <<"R","E","S","O","U","R","C","E","_","N","O","T","_","F","O","U","N","D">>



(***************************************************************************)
(* Properties of the writes, checked under Spec.                           *)
(***************************************************************************)
\* C27: a create, update or delete request that ends in an error leaves the
\* collection exactly as it was; the collection changes only on a request
\* that is answered with a success status.
C27_ErrorsLeaveCollection ==
    [][/\ request'.method \in {"POST", "PUT", "DELETE"} /\ response'.status >= 400 =>
             products' = products
       /\ products' # products => response'.status \in {200, 201}]_vars

\* C27 witness: the admin key asked to delete a product that is not there,
\* the answer was 404 and the collection is the seed
C27_Witness ==
    /\ request.method = "DELETE"
    /\ request.apiKey = AdminKey
    /\ response.status = 404
    /\ products = SeedProducts


\* C28: every stored product can be fetched, updated and deleted by its own
\* id: the id validator accepts the id of every product of the collection.
C28_StoredIdsAccepted ==
    \A i \in 1..Len(products) : validateProductId(products[i].id).ok

\* C28: a seed product exists under the id '4' and the authenticated request
\* that fetches it by that id was rejected with 400
C28_SeedIdRejected ==
    /\ request.method = "GET"
    /\ request.route = "/api/products/:id"
    /\ request.apiKey = DevKey
    /\ request.id = <<"4">>
    /\ \E i \in 1..Len(products) : products[i].id = <<"4">>
    /\ response.status = 400



(***************************************************************************)
(* Properties of the pipeline as a whole, checked under SpecQP.            *)
(***************************************************************************)
\* C25: applySorting is idempotent: sorting its result again with the same
\* field and order gives the same sequence.
C25_SortingIdempotent ==
    call.fn = "applySorting" =>
        applySorting(<<call.result>>, 1, call.arg).h[1] = call.result

\* C25 witness: a call that moved products and whose result holds two
\* products that compare equal
C25_Witness ==
    /\ call.fn = "applySorting"
    /\ call.result # call.products
    /\ \E i, j \in 1..Len(call.result) :
          i # j /\ SortCompare(call.result[i], call.result[j], call.arg) = 0


\* the query of a call is neutral for the collection P: no filter, no search
\* term, no sort key, the first page and a limit of Len(P)
NeutralCall ==
    /\ call.fn = "getProducts"
    /\ call.products # <<>>
    /\ call.query \in {"limit" :> Decimal(Len(call.products)),
                       ("page" :> Decimal(1)) @@ ("limit" :> Decimal(Len(call.products)))}

\* C26: for a non-empty P, filter, search, sort and paginate with neutral
\* parameters (default sort createdAt desc, page 1, limit Len(P)) return
\* exactly the products of P, reordered only by the default sort, with
\* totalItems = Len(P), hasNextPage false and hasPrevPage false.
C26_NeutralRoundTrip ==
    NeutralCall =>
        LET defaultSort == parseSorting(EmptyObject).value
            Position(P, x) == CHOOSE k \in 1..Len(P) : P[k] = x
            RoundTrip(P, body) ==
                /\ Len(body.data) = Len(P)
                /\ {body.data[i] : i \in 1..Len(P)} = {P[i] : i \in 1..Len(P)}
                /\ \A i, j \in 1..Len(P) :
                      i < j =>
                        /\ SortCompare(body.data[i], body.data[j], defaultSort) <= 0
                        /\ SortCompare(body.data[i], body.data[j], defaultSort) = 0 =>
                              Position(P, body.data[i]) < Position(P, body.data[j])
                /\ body.pagination.totalItems = Len(P)
                /\ ~body.pagination.hasNextPage
                /\ ~body.pagination.hasPrevPage
        IN  /\ defaultSort = [field |-> <<"c","r","e","a","t","e","d","A","t">>, order |-> <<"d","e","s","c">>]
            /\ call.result.status = 200
            /\ RoundTrip(call.products, call.result.body)

\* C26 witness: a neutral call on three products that came back in another
\* order, two of them created at the same instant
C26_Witness ==
    /\ NeutralCall
    /\ Len(call.products) = 3
    /\ call.result.status = 200
    /\ call.result.body.data # call.products
    /\ \E i, j \in 1..3 : i # j /\ call.products[i].createdAt = call.products[j].createdAt



(***************************************************************************)
(* Properties of the statistics, checked under SpecQP.                     *)
(***************************************************************************)
\* C23: calculateProductStats never fails, the empty sequence included; on
\* empty input the overview reports 0 for every count, for the stock
\* percentage and for total and average price, pricing reports 0 for min,
\* max, average and median, and inventory reports null for the most
\* expensive and for the cheapest product in stock.
C23_StatsNeverFail ==
    call.fn = "calculateProductStats" =>
        LET ZeroOverview(o) ==
                /\ o.totalProducts = 0 /\ o.inStockProducts = 0
                /\ o.outOfStockProducts = 0 /\ o.uniqueCategories = 0
                /\ o.stockPercentage = 0
                /\ o.totalValue = 0 /\ o.averagePrice = 0
            ZeroPricing(p) == p.min = 0 /\ p.max = 0 /\ p.average = 0 /\ p.median = 0
            NullInventory(i) == i.mostExpensiveInStock = Null /\ i.cheapestInStock = Null
            OnEmpty(stats) ==
                /\ ZeroOverview(stats.overview)
                /\ ZeroPricing(stats.pricing)
                /\ NullInventory(stats.inventory)
        IN  /\ call.result.ok
            /\ call.products = <<>> => OnEmpty(call.result.value)

\* C23 witness: the call on no products returned a report
C23_Witness ==
    /\ call.fn = "calculateProductStats"
    /\ call.products = <<>>
    /\ call.result.ok
    /\ DOMAIN call.result.value = {"overview", "byCategory", "pricing", "inventory", "trends"}


\* the prices of the products of a category
PricesIn(P, category) == {P[i].price : i \in {k \in 1..Len(P) : P[k].category = category}}

\* C24: every category entry of calculateCategoryStats has minPrice and
\* maxPrice equal to the least and to the greatest price of the members of
\* the category, and no entry carries Infinity or -Infinity.
C24_CategoryBounds ==
    call.fn = "calculateProductStats" /\ call.result.ok =>
        LET Bounded(P, byCategory) ==
                /\ DOMAIN byCategory = {P[i].category : i \in 1..Len(P)}
                /\ \A category \in DOMAIN byCategory :
                      /\ byCategory[category].minPrice.inf = 0
                      /\ byCategory[category].maxPrice.inf = 0
                      /\ byCategory[category].minPrice.n \in PricesIn(P, category)
                      /\ byCategory[category].maxPrice.n \in PricesIn(P, category)
                      /\ \A price \in PricesIn(P, category) :
                            /\ byCategory[category].minPrice.n <= price
                            /\ byCategory[category].maxPrice.n >= price
        IN  Bounded(call.products, call.result.value.byCategory)

\* C24 witness: a report with a category of two products of different prices
C24_Witness ==
    /\ call.fn = "calculateProductStats"
    /\ call.result.ok
    /\ \E category \in DOMAIN call.result.value.byCategory :
          /\ call.result.value.byCategory[category].count = 2
          /\ call.result.value.byCategory[category].minPrice.n
                < call.result.value.byCategory[category].maxPrice.n

\* C29: for n >= 1 products the six price-range buckets of
\* calculatePricingStats sum to n, and the counts of the four quartile
\* buckets sum to n as well, the quartile prices being those at the sorted
\* indexes floor(n * 0.25) and floor(n * 0.75).
C29_BucketsPartition ==
    call.fn = "calculateProductStats" /\ call.products # <<>> /\ call.result.ok =>
        LET Partition(n, prices, pricing) ==
                /\ pricing.priceRanges.under25 + pricing.priceRanges.from25to50
                     + pricing.priceRanges.from50to100 + pricing.priceRanges.from100to500
                     + pricing.priceRanges.from500to1000 + pricing.priceRanges.over1000 = n
                /\ pricing.quartiles.q1 = prices[n \div 4 + 1]
                /\ pricing.quartiles.q3 = prices[(3 * n) \div 4 + 1]
                /\ pricing.distribution[1].count + pricing.distribution[2].count
                     + pricing.distribution[3].count + pricing.distribution[4].count = n
        IN  Partition(Len(call.products), SortedPrices(call.products),
                      call.result.value.pricing)

\* C29: on one product the quartile buckets count 1, 0, 0 and 1
C29_OneProductCountedTwice ==
    /\ call.fn = "calculateProductStats"
    /\ Len(call.products) = 1
    /\ call.result.ok
    /\ call.result.value.pricing.distribution[1].count = 1
    /\ call.result.value.pricing.distribution[2].count = 0
    /\ call.result.value.pricing.distribution[3].count = 0
    /\ call.result.value.pricing.distribution[4].count = 1



(***************************************************************************)
(* The error metrics over time: errors reach the error handler one after   *)
(* the other while the minutes go by, and the metrics are reset.           *)
(***************************************************************************)
\* an error reaches globalErrorHandler, which records it and responds
HandleError ==
    LET HandledErrors ==
            {NotFoundError(<<"P","r","o","d","u","c","t">>, <<"9","9">>),
             NativeError(<<"T","y","p","e","E","r","r","o","r">>, <<"x"," ","i","s"," ","n","o","t"," ","a"," ","f","u","n","c","t","i","o","n">>, EmptyObject)}
        HandledRequests == {r \in ErrorRequests : r.method = <<"G","E","T">>}
        Handled(err, req, out) ==
            /\ errorMetrics' = out.metrics
            /\ response' = out.response
            /\ trace' = Append(trace, [err |-> err, req |-> req, now |-> clock])
    IN
    /\ Len(trace) < MaxErrors
    /\ \E err \in HandledErrors, req \in HandledRequests :
          Handled(err, req, globalErrorHandler(err, req, <<"p","r","o","d","u","c","t","i","o","n">>, errorMetrics, clock))
    /\ UNCHANGED <<products, clock, request, call>>

\* time goes by: to the last minute of an hour, to a full hour, day or week
Tick ==
    LET TimePoints == {59, 60, 1440, 1500, 10080}
    IN
    /\ \E t \in TimePoints : t > clock /\ clock' = t
    /\ UNCHANGED <<products, request, response, trace, call, errorMetrics>>

\* errorMetrics.reset()
Reset ==
    /\ trace # <<>>
    /\ errorMetrics' = ErrorMetrics
    /\ trace' = <<>>
    /\ UNCHANGED <<products, clock, request, response, call>>

NextMet ==
    \/ HandleError
    \/ Tick
    \/ Reset

SpecMet == Init /\ [][NextMet]_vars



(***************************************************************************)
(* Properties of the error metrics, checked under SpecMet and SpecErr.     *)
(***************************************************************************)
\* the window holds the record as its newest and nothing older than its
\* length in minutes at the instant now
WindowHolds(window, record, length, now) ==
    /\ window # <<>>
    /\ window[Len(window)] = record
    /\ \A i \in 1..Len(window) : now - window[i].timestamp <= length

\* C21: after every recordError call the last-hour, the last-day and the
\* last-week window each contain the new record and no record older than
\* one hour, one day and one week at the time of that write.
C21_WindowsPruned ==
    [][errorMetrics'.totalErrors = errorMetrics.totalErrors + 1 =>
          LET Written(windows, handled) ==
                  /\ windows.lastWeek # <<>>
                  /\ windows.lastWeek[Len(windows.lastWeek)].timestamp = handled.now
                  /\ windows.lastWeek[Len(windows.lastWeek)].endpoint
                        = handled.req.method \o <<" ">> \o handled.req.originalUrl
                  /\ WindowHolds(windows.lastHour, windows.lastWeek[Len(windows.lastWeek)],
                                 60, handled.now)
                  /\ WindowHolds(windows.lastDay, windows.lastWeek[Len(windows.lastWeek)],
                                 1440, handled.now)
                  /\ WindowHolds(windows.lastWeek, windows.lastWeek[Len(windows.lastWeek)],
                                 10080, handled.now)
          IN  Written(errorMetrics'.errorsByTimeRange, trace'[Len(trace')])]_vars

\* C21 witness: three errors were recorded, and at the third write the first
\* was more than a day old and the second more than an hour
C21_Witness ==
    /\ errorMetrics.totalErrors = 3
    /\ Len(errorMetrics.errorsByTimeRange.lastHour) = 1
    /\ Len(errorMetrics.errorsByTimeRange.lastDay) = 2
    /\ Len(errorMetrics.errorsByTimeRange.lastWeek) = 3
    /\ errorMetrics.errorsByTimeRange.lastHour[1].timestamp = clock


\* C22: getErrorRate(window) is the number of records of the window divided
\* by its length in minutes (60, 1440, 10080), and isErrorRateHigh called
\* without a threshold reports high exactly when the last-hour rate is
\* above 2 errors per minute.
C22_RateAndDefaultThreshold ==
    /\ call.fn = "getErrorRate" /\ call.args # <<>> =>
          /\ call.args[1] = <<"l","a","s","t","H","o","u","r">> =>
                call.result = [errors |-> Len(call.metrics.errorsByTimeRange.lastHour),
                               minutes |-> 60]
          /\ call.args[1] = <<"l","a","s","t","D","a","y">> =>
                call.result = [errors |-> Len(call.metrics.errorsByTimeRange.lastDay),
                               minutes |-> 1440]
          /\ call.args[1] = <<"l","a","s","t","W","e","e","k">> =>
                call.result = [errors |-> Len(call.metrics.errorsByTimeRange.lastWeek),
                               minutes |-> 10080]
    /\ call.fn = "isErrorRateHigh" /\ call.args = <<>> =>
          (call.result <=> Len(call.metrics.errorsByTimeRange.lastHour) > 2 * 60)

\* C22: with 90 errors in the last hour, 1.5 a minute, the check called
\* without a threshold reports a high rate
C22_DefaultThresholdIsOne ==
    /\ call.fn = "isErrorRateHigh"
    /\ call.args = <<>>
    /\ Len(call.metrics.errorsByTimeRange.lastHour) = 90
    /\ call.result

\* the sum of the counts of a breakdown
SumOfCounts(counts) ==
    LET RECURSIVE Sum(_)
        Sum(keys) ==
            IF keys = {} THEN 0
            ELSE LET key == CHOOSE k \in keys : TRUE
                 IN  counts[key] + Sum(keys \ {key})
    IN  Sum(DOMAIN counts)

\* every record of the inner window is in the outer one
Nested(inner, outer) ==
    \A i \in 1..Len(inner) : \E j \in 1..Len(outer) : outer[j] = inner[i]

\* C30: since construction or the last reset, totalErrors is the number of
\* errors recorded and the sum of the counts by type, by status code and by
\* endpoint; the last-hour window is within the last-day window and that
\* one within the last-week window; and every error that globalErrorHandler
\* handles is recorded exactly once, by the time its response is sent.
C30_CountsAgree ==
    /\ [](/\ errorMetrics.totalErrors = Len(trace)
          /\ errorMetrics.totalErrors = SumOfCounts(errorMetrics.errorsByType)
          /\ errorMetrics.totalErrors = SumOfCounts(errorMetrics.errorsByStatusCode)
          /\ errorMetrics.totalErrors = SumOfCounts(errorMetrics.errorsByEndpoint)
          /\ Nested(errorMetrics.errorsByTimeRange.lastHour,
                    errorMetrics.errorsByTimeRange.lastDay)
          /\ Nested(errorMetrics.errorsByTimeRange.lastDay,
                    errorMetrics.errorsByTimeRange.lastWeek))
    /\ [][Len(trace') = Len(trace) + 1 =>
             /\ errorMetrics'.totalErrors = errorMetrics.totalErrors + 1
             /\ Len(errorMetrics'.errorsByTimeRange.lastWeek)
                   <= Len(errorMetrics.errorsByTimeRange.lastWeek) + 1
             /\ response'.status
                   = errorMetrics'.errorsByTimeRange.lastWeek[
                         Len(errorMetrics'.errorsByTimeRange.lastWeek)].statusCode]_vars

\* C30 witness: two errors of different types on different endpoints were
\* handled since the last reset, the older one more than an hour ago, and
\* the newer one was answered 500
C30_Witness ==
    /\ Len(trace) = 2
    /\ errorMetrics.totalErrors = 2
    /\ Cardinality(DOMAIN errorMetrics.errorsByType) = 2
    /\ Cardinality(DOMAIN errorMetrics.errorsByEndpoint) = 2
    /\ Len(errorMetrics.errorsByTimeRange.lastHour) = 1
    /\ Len(errorMetrics.errorsByTimeRange.lastDay) = 2
    /\ response.status = 500

====
